---- MODULE Spec2Model ----
(***************************************************************************)
(* click-and-track: the project state (point store, active object, dirty   *)
(* flag), the playback clock, the unsaved-changes flow and the pointer     *)
(* interaction of the tracker workspace, as one state machine.             *)
(*                                                                         *)
(* Time.  Every time value is an integer count of thirds of a millisecond  *)
(* (Ms(n) is n milliseconds), so that the frame times 1000/fps of the      *)
(* frame rates used here (30, 25) are whole numbers and getFrameTime is    *)
(* exact.  Math.round is RoundDiv (round half up, as in JavaScript).       *)
(*                                                                         *)
(* Space.  Screen and video coordinates are integers and a scale is an     *)
(* integer count of tenths (ScaleUnit is the scale 1.0), so that a wheel   *)
(* step of 10% from a whole scale is exact; the container and video sizes  *)
(* are chosen so that fitToScreen yields a whole scale, and the pointer    *)
(* positions used map to whole video coordinates.                          *)
(***************************************************************************)
EXTENDS Integers, Sequences, FiniteSets, TLC

\* ------------------------------------------------------------------------
\* Bounds of the model
\* ------------------------------------------------------------------------
MaxPoints == 2
MaxObjects == 2
\* how far below zero the model follows the active object id
MaxUnderflow == 1

Ms(n) == 3 * n

\* media times a frame callback can report
TickTimes == {Ms(975), Ms(1000), Ms(1500)}

\* container (client) size of the workspace and the videos that can be loaded
Videos == {[w |-> 40, h |-> 20, duration |-> Ms(1500), fps |-> 25]}

\* pointer positions, relative to the container's top-left corner
PointerPos == {<<20, 20>>, <<80, 20>>, <<90, 20>>}
\* the pointer positions of the gestures on the fitted and the zoomed view:
\* on or next to the left marker, on the background, on or next to the right
\* marker (beyond the right edge of the fitted video)
GesturePos == {<<22, 22>>, <<50, 22>>, <<88, 22>>}
\* where the wheel is turned
WheelPos == {<<0, 0>>}
\* the sizes the workspace container is resized to: the initial one, one that
\* fits the video at scale 1, a smaller and a much larger one
ContainerSizes ==
    {[w |-> 80, h |-> 40], [w |-> 40, h |-> 20], [w |-> 20, h |-> 10],
     [w |-> 440, h |-> 220]}

\* ------------------------------------------------------------------------
\* utils.ts: frame / time arithmetic
\* ------------------------------------------------------------------------
Max(a, b) == IF a >= b THEN a ELSE b
Min(a, b) == IF a <= b THEN a ELSE b

\* Math.round(a / b) for a >= 0, b > 0
RoundDiv(a, b) == (2 * a + b) \div (2 * b)
\* Math.ceil(a / b) for b > 0
CeilDiv(a, b) == (a + b - 1) \div b

getFrameIndex(timeMs, fps) ==
    IF fps <= 0 THEN 0 ELSE RoundDiv(timeMs * fps, Ms(1000))

getFrameTime(frameIndex, fps) ==
    IF fps <= 0 THEN 0 ELSE (frameIndex * Ms(1000)) \div fps

IntervalFrames(fps, rateNum, rateDen) == RoundDiv(rateDen * fps, rateNum)

isTrackingFrame(timestampMs, fps, rateNum, rateDen) ==
    IF fps <= 0 THEN FALSE
    ELSE LET intervalFrames == IntervalFrames(fps, rateNum, rateDen)
         IN  IF intervalFrames <= 0 THEN TRUE
             ELSE getFrameIndex(timestampMs, fps) % intervalFrames = 0

\* ------------------------------------------------------------------------
\* utils.ts: parseCSV.  A text is a sequence of lines, a line a sequence of
\* comma-separated fields.  A field is a numeric literal (Num), the empty
\* string (Empty), other text (Text) or the literal timestamp_ms (TsName).
\* ------------------------------------------------------------------------
Num(v) == [kind |-> "num", v |-> v]
Empty == [kind |-> "empty", v |-> 0]
Text == [kind |-> "text", v |-> 0]
TsName == [kind |-> "timestamp_ms", v |-> 0]

HeaderLine == <<TsName, Text, Text, Text>>
BlankLine == <<Empty>>
Row(ts, objId, x, y) == <<Num(ts), Num(objId), Num(x), Num(y)>>

\* Number(field): a numeric literal is its value, the empty string is 0,
\* any other text is NaN; a missing field (undefined) is NaN
ToNumber(line, i) ==
    IF i > Len(line) THEN [nan |-> TRUE, v |-> 0]
    ELSE IF line[i].kind = "num" THEN [nan |-> FALSE, v |-> line[i].v]
    ELSE IF line[i].kind = "empty" THEN [nan |-> FALSE, v |-> 0]
    ELSE [nan |-> TRUE, v |-> 0]

\* lines[0].includes('timestamp_ms')
LineIncludesHeader(line) == \E i \in 1..Len(line) : line[i].kind = "timestamp_ms"

RECURSIVE ParseLines(_, _)
ParseLines(lines, i) ==
    IF i > Len(lines) THEN <<>>
    ELSE LET line == lines[i]
             ts == ToNumber(line, 1)
             objId == ToNumber(line, 2)
             x == ToNumber(line, 3)
             y == ToNumber(line, 4)
             rest == ParseLines(lines, i + 1)
         IN  IF line = BlankLine THEN rest
             ELSE IF ~ts.nan /\ ~objId.nan /\ ~x.nan /\ ~y.nan
                  THEN <<[timestamp |-> ts.v, objectId |-> objId.v,
                          x |-> x.v, y |-> y.v]>> \o rest
                  ELSE rest

parseCSV(csvText) ==
    LET startIndex == IF LineIncludesHeader(csvText[1]) THEN 2 ELSE 1
    IN  ParseLines(csvText, startIndex)

\* the files the user can pick in the CSV picker:
\* two rows of object 1 in one frame (25 at 25 fps, 30 at 30 fps), the second off the grid
OffGridCsv ==
    << HeaderLine,
       Row(Ms(1000), 1, 10, 10),
       Row(Ms(1010), 1, 40, 10) >>
\* a malformed row, a blank line, a row with an empty object_id field
SparseCsv ==
    << HeaderLine,
       <<Num(Ms(1000)), Text, Num(10), Num(10)>>,
       BlankLine,
       <<Num(Ms(0)), Empty, Num(40), Num(10)>>,
       Row(Ms(0), 2, 10, 10) >>
CsvFiles == {OffGridCsv, SparseCsv}
\* objects 1 and 2 at one place at 0 ms, object 1 there again at 1000 ms,
\* object 3 elsewhere at 1000 ms
TrailCsv ==
    << HeaderLine,
       Row(Ms(0), 1, 10, 10),
       Row(Ms(0), 2, 10, 10),
       Row(Ms(1000), 1, 10, 10),
       Row(Ms(1000), 3, 40, 10) >>

\* ------------------------------------------------------------------------
\* State
\* ------------------------------------------------------------------------
VARIABLES
    \* useProjectState
    points,               \* TrackPoint[], in array order
    activeObjectId,
    numObjects,
    isDirty,
    \* App
    videoFps,
    settings,             \* AppSettings
    appTime,              \* App's currentTime, written by onTimeUpdate
    isPlaying,
    isSpaceHeld,
    isUnsavedDialogOpen,
    pendingAction,        \* "VIDEO", "CSV" or "none"
    picker,               \* the file picker that is open: "VIDEO", "CSV" or "none"
    video,                \* <<>> or <<file>>: the loaded video (videoUrl)
    fpsProbe,             \* <<>> or <<fps>>: a getExactFrameRate call in flight
    csvReader,            \* <<>> or <<text>>: a FileReader.readAsText in flight
    exportJob,            \* <<>> or <<origin>>: a handleExport call in flight
    released,             \* <<>> or <<points>>: the point set the user gave up by
                          \* Discard or saved by Export & Proceed, for the picker
                          \* and the load that follow (history)
    \* useVideoSynchronization
    syncTime,             \* the hook's currentTime, seen by the workspace
    vidTime,              \* the media element's clock (vid.currentTime)
    nextPauseTime,        \* nextPauseTimeRef, NoTime for null
    videoDimensions,
    \* useViewport
    transform,
    hasInitialFit,
    container,            \* clientWidth and clientHeight of the workspace container
    \* useCanvasInteraction / TrackerWorkspace
    stateRef,             \* InteractionState
    draggedPoint,         \* <<>> or <<point>>
    \* the event handled last (history, written by every handler): its type,
    \* its inputs and, where count is given, Len(points) before it ran
    ev

vars == << points, activeObjectId, numObjects, isDirty, videoFps, settings,
           appTime, isPlaying, isSpaceHeld, isUnsavedDialogOpen, pendingAction,
           picker, video, fpsProbe, csvReader, exportJob, released, syncTime, vidTime,
           nextPauseTime, videoDimensions, transform, hasInitialFit, container,
           stateRef,
           draggedPoint, ev >>

projectVars == << points, activeObjectId, numObjects, isDirty >>
clockVars == << appTime, syncTime, vidTime, nextPauseTime, isPlaying >>
viewVars == << transform, hasInitialFit, videoDimensions, container >>

ContainerW == container.w
ContainerH == container.h
pointerVars == << stateRef, draggedPoint >>
flowVars == << isUnsavedDialogOpen, pendingAction, picker, csvReader, exportJob,
              released >>

NoTime == 0 - 1
\* the scale 1.0, in tenths
ScaleUnit == 10
DEFAULT_SETTINGS == [samplingRateNum |-> 1, samplingRateDen |-> 1, trailLength |-> 5]
IDLE == [type |-> "IDLE"]

Init ==
    /\ points = <<>>
    /\ activeObjectId = 1
    /\ numObjects = 1
    /\ isDirty = FALSE
    /\ videoFps = 30
    /\ settings = DEFAULT_SETTINGS
    /\ appTime = 0
    /\ isPlaying = FALSE
    /\ isSpaceHeld = FALSE
    /\ isUnsavedDialogOpen = FALSE
    /\ pendingAction = "none"
    /\ picker = "none"
    /\ video = <<>>
    /\ fpsProbe = <<>>
    /\ csvReader = <<>>
    /\ exportJob = <<>>
    /\ released = <<>>
    /\ syncTime = 0
    /\ vidTime = 0
    /\ nextPauseTime = NoTime
    /\ videoDimensions = [w |-> 0, h |-> 0]
    /\ transform = [x |-> 0, y |-> 0, scale |-> ScaleUnit]
    /\ hasInitialFit = FALSE
    /\ container = [w |-> 80, h |-> 40]
    /\ stateRef = IDLE
    /\ draggedPoint = <<>>
    /\ ev = [type |-> "init"]

\* ------------------------------------------------------------------------
\* Derived values of App
\* ------------------------------------------------------------------------
IsTracking(t) ==
    isTrackingFrame(t, videoFps, settings.samplingRateNum, settings.samplingRateDen)

FrameOf(t) == getFrameIndex(t, videoFps)

RECURSIVE FilterSeq(_, _)
\* Array.prototype.filter: keep[i] tells whether element i stays
FilterSeq(seq, keep) ==
    IF seq = <<>> THEN <<>>
    ELSE LET n == Len(seq)
             front == FilterSeq(SubSeq(seq, 1, n - 1), SubSeq(keep, 1, n - 1))
         IN  IF keep[n] THEN Append(front, seq[n]) ELSE front

TrackingOnly(pts) == FilterSeq(pts, [i \in 1..Len(pts) |-> IsTracking(pts[i].timestamp)])
visiblePoints == TrackingOnly(points)

\* ------------------------------------------------------------------------
\* useProjectState: the point store
\* ------------------------------------------------------------------------
\* addPoint without the filter: the new point is appended to whatever is there
addPoint_AppendOnly(prev, p) == prev \o <<p>>

\* addPoint: drop the point with the same timestamp and objectId, append p
addPoint(prev, p) ==
    FilterSeq(prev, [i \in 1..Len(prev) |->
        ~(prev[i].timestamp = p.timestamp /\ prev[i].objectId = p.objectId)]) \o <<p>>

\* deletePoint matching the exact frame time instead of the frame index
deletePoint_ExactTimestamp(prev, time, objId, fps) ==
    LET targetTime == getFrameTime(getFrameIndex(time, fps), fps)
    IN  FilterSeq(prev, [i \in 1..Len(prev) |->
            ~(prev[i].timestamp = targetTime /\ prev[i].objectId = objId)])

\* deletePoint: drop every point of objId in the frame of time
deletePoint(prev, time, objId, fps) ==
    LET targetFrame == getFrameIndex(time, fps)
    IN  FilterSeq(prev, [i \in 1..Len(prev) |->
            ~(getFrameIndex(prev[i].timestamp, fps) = targetFrame
              /\ prev[i].objectId = objId)])

\* resetProject that keeps the object count
resetProject_KeepsObjects ==
    /\ points' = <<>>
    /\ activeObjectId' = 1
    /\ numObjects' = numObjects
    /\ isDirty' = FALSE

\* resetProject
resetProject ==
    /\ points' = <<>>
    /\ activeObjectId' = 1
    /\ numObjects' = 1
    /\ isDirty' = FALSE

RECURSIVE MaxObjectId(_, _)
\* newPoints.reduce((acc, p) => Math.max(acc, p.objectId), 1)
MaxObjectId(newPoints, acc) ==
    IF newPoints = <<>> THEN acc
    ELSE MaxObjectId(Tail(newPoints), Max(acc, Head(newPoints).objectId))

\* the window can take input: no native file or save picker is open on top of it
WindowActive == picker = "none" /\ exportJob = <<>>
\* the widget and workspace take pointer input: not covered by the modal dialog
PageActive == WindowActive /\ ~isUnsavedDialogOpen
WorkspaceMounted == video # <<>>

\* ------------------------------------------------------------------------
\* useGlobalShortcuts and the object controls
\* ------------------------------------------------------------------------
\* key " " down, not a repeat
KeySpaceDown ==
    /\ WindowActive
    /\ ~isUnsavedDialogOpen
    /\ isSpaceHeld' = TRUE
    /\ isPlaying' = TRUE
    /\ ev' = [type |-> "keySpaceDown"]
    /\ UNCHANGED << projectVars, videoFps, settings, appTime, flowVars, video,
                    fpsProbe, syncTime, vidTime, nextPauseTime, viewVars, pointerVars >>

\* key " " up
KeySpaceUp ==
    /\ WindowActive
    /\ isSpaceHeld' = (IF isUnsavedDialogOpen THEN isSpaceHeld ELSE FALSE)
    /\ ev' = [type |-> "keySpaceUp"]
    /\ UNCHANGED << projectVars, videoFps, settings, appTime, isPlaying, flowVars,
                    video, fpsProbe, syncTime, vidTime, nextPauseTime, viewVars,
                    pointerVars >>

\* Tab, and the next-object button (handleNextObject)
NextObject ==
    /\ WindowActive
    /\ ~isUnsavedDialogOpen
    /\ activeObjectId' = (activeObjectId % numObjects) + 1
    /\ ev' = [type |-> "nextObject"]
    /\ UNCHANGED << points, numObjects, isDirty, videoFps, settings, isSpaceHeld,
                    clockVars, flowVars, video, fpsProbe, viewVars, pointerVars >>

\* Shift+Tab, and the previous-object button (handlePrevObject)
PrevObject ==
    /\ WindowActive
    /\ ~isUnsavedDialogOpen
    /\ activeObjectId > 0 - MaxUnderflow
    /\ activeObjectId' = (IF activeObjectId = 1 THEN numObjects ELSE activeObjectId - 1)
    /\ ev' = [type |-> "prevObject"]
    /\ UNCHANGED << points, numObjects, isDirty, videoFps, settings, isSpaceHeld,
                    clockVars, flowVars, video, fpsProbe, viewVars, pointerVars >>

\* key N, and the add-object button
AddObject ==
    /\ WindowActive
    /\ ~isUnsavedDialogOpen
    /\ numObjects < MaxObjects
    /\ numObjects' = numObjects + 1
    /\ activeObjectId' = numObjects + 1
    /\ ev' = [type |-> "addObject"]
    /\ UNCHANGED << points, isDirty, videoFps, settings, isSpaceHeld, clockVars,
                    flowVars, video, fpsProbe, viewVars, pointerVars >>

\* deleteCurrent without the isPlaying check
DeletePermitted_WhilePlaying == IsTracking(appTime)

\* App.deleteCurrent's guard
DeletePermitted == ~isPlaying /\ IsTracking(appTime)

\* key X: App.deleteCurrent
DeleteCurrent ==
    /\ WindowActive
    /\ ~isUnsavedDialogOpen
    /\ IF DeletePermitted
       THEN /\ points' = deletePoint(points, appTime, activeObjectId, videoFps)
            /\ isDirty' = TRUE
       ELSE UNCHANGED << points, isDirty >>
    /\ ev' = [type |-> "deleteCurrent", count |-> Len(points)]
    /\ UNCHANGED << activeObjectId, numObjects, videoFps, settings, isSpaceHeld,
                    clockVars, flowVars, video, fpsProbe, viewVars, pointerVars >>

\* ------------------------------------------------------------------------
\* useVideoSynchronization: the playback clock
\* ------------------------------------------------------------------------
Duration == video[1].duration

\* a target that may be the current frame itself
NextTargetFrame_NotStrict(currentFrame, intervalFrames) ==
    CeilDiv(currentFrame, intervalFrames) * intervalFrames

\* the next sampling-grid frame ahead of currentFrame (loop, lines 138-141)
NextTargetFrame(currentFrame, intervalFrames) ==
    LET nextTargetFrame == CeilDiv(10 * currentFrame + 1, 10 * intervalFrames) * intervalFrames
    IN  IF nextTargetFrame <= currentFrame
        THEN nextTargetFrame + intervalFrames
        ELSE nextTargetFrame

\* a loop that pauses only on a frame callback exactly at the target
WithinSnapThreshold_ExactOnly(remaining, fps) == remaining = 0
\* remaining <= (1000 / fps) * 0.85
WithinSnapThreshold(remaining, fps) == remaining * fps * 100 <= Ms(1000) * 85

\* one frame callback (loop) reporting the media time nowMs
Tick(nowMs) ==
    /\ WorkspaceMounted
    /\ IF isPlaying
       THEN nowMs > vidTime /\ nowMs <= Duration
       ELSE nowMs = vidTime
    /\ appTime' = nowMs
    /\ LET autoPause == isPlaying /\ settings.samplingRateNum > 0 /\ ~isSpaceHeld
           intervalFrames == Max(1, IntervalFrames(videoFps, settings.samplingRateNum,
                                                   settings.samplingRateDen))
           currentFrame == getFrameIndex(nowMs, videoFps)
           targetTime == IF nextPauseTime = NoTime
                         THEN getFrameTime(NextTargetFrame(currentFrame, intervalFrames),
                                           videoFps)
                         ELSE nextPauseTime
       IN  IF autoPause /\ WithinSnapThreshold(targetTime - nowMs, videoFps)
           THEN /\ isPlaying' = FALSE
                /\ vidTime' = Min(targetTime, Duration)
                /\ syncTime' = targetTime
                /\ nextPauseTime' = NoTime
           ELSE /\ isPlaying' = isPlaying
                /\ vidTime' = nowMs
                /\ syncTime' = nowMs
                /\ nextPauseTime' = (IF autoPause THEN targetTime ELSE nextPauseTime)
    /\ ev' = [type |-> "tick", autoPaused |-> ~isPlaying' /\ isPlaying]
    /\ UNCHANGED << projectVars, videoFps, settings, isSpaceHeld, flowVars, video,
                    fpsProbe, viewVars, pointerVars >>

\* the media element's ended event
VideoEnded ==
    /\ WorkspaceMounted
    /\ isPlaying
    /\ vidTime = Duration
    /\ isPlaying' = FALSE
    /\ nextPauseTime' = NoTime
    /\ ev' = [type |-> "ended"]
    /\ UNCHANGED << projectVars, videoFps, settings, appTime, isSpaceHeld, flowVars,
                    video, fpsProbe, syncTime, vidTime, viewVars, pointerVars >>

\* the seek effect: a new seekRequest reaches the mounted workspace
Seek(time) ==
    /\ vidTime' = Min(time, Duration)
    /\ syncTime' = time
    /\ nextPauseTime' = NoTime

\* ------------------------------------------------------------------------
\* useSmartNavigation, as App calls it
\* ------------------------------------------------------------------------
\* App passes no fps prop: inside the hook fps is undefined, getFrameIndex
\* yields NaN and every frame comparison is false
NavFpsPassed == FALSE
NavFrameGreater(a, b) ==
    NavFpsPassed /\ getFrameIndex(a, videoFps) > getFrameIndex(b, videoFps)

\* visiblePoints.filter(p => p.objectId === activeObjectId)
OfObject(vp, id) == FilterSeq(vp, [i \in 1..Len(vp) |-> vp[i].objectId = id])
Relevant == OfObject(visiblePoints, activeObjectId)

RECURSIVE ReduceTimestamp(_, _, _)
\* seq.reduce((a, b) => a.timestamp > b.timestamp ? a : b) with later = TRUE,
\* seq.reduce((a, b) => a.timestamp < b.timestamp ? a : b) with later = FALSE
ReduceTimestamp(seq, a, later) ==
    IF seq = <<>> THEN a
    ELSE LET b == Head(seq)
             keepA == IF later THEN a.timestamp > b.timestamp
                      ELSE a.timestamp < b.timestamp
         IN  ReduceTimestamp(Tail(seq), IF keepA THEN a ELSE b, later)

LatestOf(seq) == ReduceTimestamp(Tail(seq), Head(seq), TRUE)
EarliestOf(seq) == ReduceTimestamp(Tail(seq), Head(seq), FALSE)

\* the jumps record in ev what they hand to triggerSeek: request is <<>> when
\* no seek is requested, else one number of the hook (<<>> for NaN)

\* Shift+R, and the first button
JumpToFirst ==
    /\ WindowActive
    /\ ~isUnsavedDialogOpen
    /\ WorkspaceMounted
    /\ IF isPlaying
       THEN UNCHANGED << syncTime, vidTime, nextPauseTime >>
       ELSE IF Relevant # <<>>
                /\ NavFrameGreater(appTime, EarliestOf(Relevant).timestamp)
            THEN Seek(EarliestOf(Relevant).timestamp)
            ELSE Seek(0)
    /\ ev' = [type |-> "jumpToFirst",
              request |-> IF isPlaying THEN <<>>
                          ELSE IF Relevant # <<>>
                                  /\ NavFrameGreater(appTime, EarliestOf(Relevant).timestamp)
                               THEN << <<EarliestOf(Relevant).timestamp>> >>
                               ELSE << <<0>> >>]
    /\ UNCHANGED << projectVars, videoFps, settings, appTime, isPlaying, isSpaceHeld,
                    flowVars, video, fpsProbe, viewVars, pointerVars >>

\* Shift+F, and the final button
JumpToFinal ==
    /\ WindowActive
    /\ ~isUnsavedDialogOpen
    /\ WorkspaceMounted
    /\ IF ~isPlaying /\ Relevant # <<>>
       THEN Seek(LatestOf(Relevant).timestamp)
       ELSE UNCHANGED << syncTime, vidTime, nextPauseTime >>
    /\ ev' = [type |-> "jumpToFinal",
              request |-> IF ~isPlaying /\ Relevant # <<>>
                          THEN << <<LatestOf(Relevant).timestamp>> >>
                          ELSE <<>>]
    /\ UNCHANGED << projectVars, videoFps, settings, appTime, isPlaying, isSpaceHeld,
                    flowVars, video, fpsProbe, viewVars, pointerVars >>

\* a number of the hook that is NaN when fps is undefined: <<>> for NaN,
\* <<v>> for the number v
NavNumber(v) == IF NavFpsPassed THEN <<v>> ELSE <<>>

\* Math.round(samplingIntervalSec * fps)
NavIntervalFrames ==
    IntervalFrames(videoFps, settings.samplingRateNum, settings.samplingRateDen)

\* getFrameTime(getFrameIndex(currentTime, fps) + steps * intervalFrames, fps)
NavStepTarget(steps) ==
    NavNumber(getFrameTime(getFrameIndex(appTime, videoFps) + steps * NavIntervalFrames,
                           videoFps))

\* Math.max(0, target): NaN stays NaN
NavClampAtZero(target) == IF target = <<>> THEN <<>> ELSE <<Max(0, target[1])>>

\* the seek effect for a request whose time may be NaN: the assignment to
\* vid.currentTime (line 43) throws on a non-finite value, before
\* setCurrentTime and before the pause target is cleared
SeekRequest(target) ==
    IF target = <<>>
    THEN UNCHANGED << syncTime, vidTime, nextPauseTime >>
    ELSE Seek(target[1])

\* relevant of jumpToPrevious / jumpToNext: the active object's visible points
\* in a frame before (forward = FALSE) or after (forward = TRUE) the current one
NavRelevant(forward) ==
    FilterSeq(Relevant,
              [i \in 1..Len(Relevant) |->
                  IF forward THEN NavFrameGreater(Relevant[i].timestamp, appTime)
                  ELSE NavFrameGreater(appTime, Relevant[i].timestamp)])

\* R, and the previous button
JumpToPrevious ==
    /\ WindowActive
    /\ ~isUnsavedDialogOpen
    /\ WorkspaceMounted
    /\ IF isPlaying
       THEN UNCHANGED << syncTime, vidTime, nextPauseTime >>
       ELSE IF NavRelevant(FALSE) # <<>>
            THEN Seek(LatestOf(NavRelevant(FALSE)).timestamp)
            ELSE SeekRequest(NavClampAtZero(NavStepTarget(0 - 1)))
    /\ ev' = [type |-> "jumpToPrevious",
              request |-> IF isPlaying THEN <<>>
                          ELSE IF NavRelevant(FALSE) # <<>>
                               THEN << <<LatestOf(NavRelevant(FALSE)).timestamp>> >>
                               ELSE << NavClampAtZero(NavStepTarget(0 - 1)) >>]
    /\ UNCHANGED << projectVars, videoFps, settings, appTime, isPlaying, isSpaceHeld,
                    flowVars, video, fpsProbe, viewVars, pointerVars >>

\* F, and the next button
JumpToNext ==
    /\ WindowActive
    /\ ~isUnsavedDialogOpen
    /\ WorkspaceMounted
    /\ IF isPlaying
       THEN UNCHANGED << syncTime, vidTime, nextPauseTime >>
       ELSE IF NavRelevant(TRUE) # <<>>
            THEN Seek(EarliestOf(NavRelevant(TRUE)).timestamp)
            ELSE SeekRequest(NavStepTarget(1))
    /\ ev' = [type |-> "jumpToNext",
              request |-> IF isPlaying THEN <<>>
                          ELSE IF NavRelevant(TRUE) # <<>>
                               THEN << <<EarliestOf(NavRelevant(TRUE)).timestamp>> >>
                               ELSE << NavStepTarget(1) >>]
    /\ UNCHANGED << projectVars, videoFps, settings, appTime, isPlaying, isSpaceHeld,
                    flowVars, video, fpsProbe, viewVars, pointerVars >>

\* ------------------------------------------------------------------------
\* ControlWidget: the sampling-rate spin boxes
\* ------------------------------------------------------------------------
SamplingValues == {1, 2}

\* onChange of the numerator ("samplingRateNum") or denominator
\* ("samplingRateDen") spin box
SetSamplingRate(field, v) ==
    /\ PageActive
    /\ WorkspaceMounted
    /\ settings' = [settings EXCEPT ![field] = Max(1, v)]
    /\ ev' = [type |-> "setSamplingRate"]
    /\ UNCHANGED << projectVars, videoFps, clockVars, isSpaceHeld, flowVars, video,
                    fpsProbe, viewVars, pointerVars >>

TrailLengths == {0, 1, 5}

\* onChange of the trail-length spin box
SetTrailLength(v) ==
    /\ PageActive
    /\ WorkspaceMounted
    /\ settings' = [settings EXCEPT !.trailLength = Max(0, v)]
    /\ ev' = [type |-> "setTrailLength"]
    /\ UNCHANGED << projectVars, videoFps, clockVars, isSpaceHeld, flowVars, video,
                    fpsProbe, viewVars, pointerVars >>

\* ------------------------------------------------------------------------
\* App: file pickers, unsaved-changes dialog, export, video load, CSV import
\* ------------------------------------------------------------------------
\* the upload label of the start screen opens the video picker
StartScreenPick ==
    /\ WindowActive
    /\ ~WorkspaceMounted
    /\ picker' = "VIDEO"
    /\ ev' = [type |-> "startScreenPick"]
    /\ UNCHANGED << projectVars, videoFps, settings, isSpaceHeld, clockVars,
                    isUnsavedDialogOpen, pendingAction, csvReader, exportJob, released, video,
                    fpsProbe, viewVars, pointerVars >>

\* a click that opens the file picker whatever the state of the project
PickerClick_SkipsPrompt(action) ==
    /\ PageActive
    /\ WorkspaceMounted
    /\ picker' = action
    /\ UNCHANGED << pendingAction, isUnsavedDialogOpen >>
    /\ ev' = [type |-> "pickerClick", action |-> action]
    /\ UNCHANGED << projectVars, videoFps, settings, isSpaceHeld, clockVars,
                    csvReader, exportJob, released, video, fpsProbe, viewVars, pointerVars >>

\* handleLoadVideoClick ("VIDEO") and handleImportCSVClick ("CSV")
PickerClick(action) ==
    /\ PageActive
    /\ WorkspaceMounted
    /\ IF Len(points) > 0 /\ isDirty
       THEN /\ pendingAction' = action
            /\ isUnsavedDialogOpen' = TRUE
            /\ picker' = picker
       ELSE /\ picker' = action
            /\ UNCHANGED << pendingAction, isUnsavedDialogOpen >>
    /\ ev' = [type |-> "pickerClick", action |-> action]
    /\ UNCHANGED << projectVars, videoFps, settings, isSpaceHeld, clockVars,
                    csvReader, exportJob, released, video, fpsProbe, viewVars, pointerVars >>

handleLoadVideoClick == PickerClick("VIDEO")
handleImportCSVClick == PickerClick("CSV")

\* the dialog's Cancel button and Escape key (onClose)
DialogClose ==
    /\ WindowActive
    /\ isUnsavedDialogOpen
    /\ isUnsavedDialogOpen' = FALSE
    /\ ev' = [type |-> "dialogClose"]
    /\ UNCHANGED << projectVars, videoFps, settings, isSpaceHeld, clockVars,
                    pendingAction, picker, csvReader, exportJob, released, video, fpsProbe,
                    viewVars, pointerVars >>

\* handleDiscardAndProceed
handleDiscardAndProceed ==
    /\ WindowActive
    /\ isUnsavedDialogOpen
    /\ isUnsavedDialogOpen' = FALSE
    /\ picker' = pendingAction
    /\ pendingAction' = "none"
    /\ released' = <<points>>
    /\ ev' = [type |-> "discard"]
    /\ UNCHANGED << projectVars, videoFps, settings, isSpaceHeld, clockVars,
                    csvReader, exportJob, video, fpsProbe, viewVars, pointerVars >>

\* handleExport is called: from the export button ("button") or from the
\* dialog's Export & Proceed ("dialog", handleExportAndProceed)
ExportStart(origin) ==
    /\ WindowActive
    /\ IF origin = "dialog" THEN isUnsavedDialogOpen
       ELSE ~isUnsavedDialogOpen /\ WorkspaceMounted
    /\ exportJob' = << [origin |-> origin, pendingAction |-> pendingAction] >>
    /\ ev' = [type |-> "exportStart", origin |-> origin]
    /\ UNCHANGED << projectVars, videoFps, settings, isSpaceHeld, clockVars,
                    isUnsavedDialogOpen, pendingAction, picker, csvReader, released,
                    video, fpsProbe, viewVars, pointerVars >>

ExportOutcomes == {"saved", "aborted", "fallback", "failed"}
\* handleExport marking the project clean on a cancelled save picker too
ExportSucceeds_AlsoAborted(outcome) == outcome \in {"saved", "fallback", "aborted"}
ExportSucceeds(outcome) == outcome \in {"saved", "fallback"}

\* handleExport settles: the file was written ("saved"), the user cancelled
\* the save picker ("aborted"), the picker failed and the download fallback
\* ran ("fallback"), or the fallback threw ("failed")
ExportFinish(outcome) ==
    /\ exportJob # <<>>
    /\ exportJob' = <<>>
    /\ isDirty' = (IF ExportSucceeds(outcome) THEN FALSE ELSE isDirty)
    /\ released' = (IF exportJob[1].origin = "dialog" /\ ExportSucceeds(outcome)
                    THEN <<points>> ELSE released)
    /\ IF exportJob[1].origin = "dialog" /\ ExportSucceeds(outcome)
       THEN /\ isUnsavedDialogOpen' = FALSE
            /\ picker' = (IF exportJob[1].pendingAction = "none" THEN picker
                          ELSE exportJob[1].pendingAction)
            /\ pendingAction' = "none"
       ELSE UNCHANGED << isUnsavedDialogOpen, picker, pendingAction >>
    /\ ev' = [type |-> "exportFinish", outcome |-> outcome]
    /\ UNCHANGED << points, activeObjectId, numObjects, videoFps, settings,
                    isSpaceHeld, clockVars, csvReader, video, fpsProbe, viewVars,
                    pointerVars >>

\* the user dismisses the open file picker without choosing a file
PickerCancel ==
    /\ picker # "none"
    /\ picker' = "none"
    /\ released' = <<>>
    /\ ev' = [type |-> "pickerCancel"]
    /\ UNCHANGED << projectVars, videoFps, settings, isSpaceHeld, clockVars,
                    isUnsavedDialogOpen, pendingAction, csvReader, exportJob, video,
                    fpsProbe, viewVars, pointerVars >>

\* handleVideoUpload, up to the await of the frame-rate probe; with it the
\* effects of the new videoSrc (view reset, dimensions reset, media reload)
handleVideoUpload(file) ==
    /\ picker = "VIDEO"
    /\ picker' = "none"
    /\ resetProject
    /\ video' = <<file>>
    /\ fpsProbe' = <<file.fps>>
    /\ videoDimensions' = [w |-> 0, h |-> 0]
    /\ transform' = [x |-> 0, y |-> 0, scale |-> ScaleUnit]
    /\ hasInitialFit' = FALSE
    /\ vidTime' = 0
    /\ released' = <<>>
    /\ ev' = [type |-> "videoUpload", count |-> Len(points)]
    /\ UNCHANGED << videoFps, settings, appTime, isPlaying, isSpaceHeld, syncTime,
                    nextPauseTime, isUnsavedDialogOpen, pendingAction, csvReader,
                    exportJob, pointerVars, container >>

\* handleVideoUpload after the await: the probe reported the file's frame
\* rate (ok) or failed, which falls back to 30
FpsProbeDone(ok) ==
    /\ fpsProbe # <<>>
    /\ fpsProbe' = <<>>
    /\ videoFps' = (IF ok /\ fpsProbe[1] > 0 THEN fpsProbe[1] ELSE 30)
    /\ ev' = [type |-> "fpsProbeDone"]
    /\ UNCHANGED << projectVars, settings, isSpaceHeld, clockVars, flowVars, video,
                    viewVars, pointerVars >>

\* handleCSVImport: the picked file is handed to a FileReader
handleCSVImport(text) ==
    /\ picker = "CSV"
    /\ picker' = "none"
    /\ csvReader' = <<text>>
    /\ ev' = [type |-> "csvPicked"]
    /\ UNCHANGED << projectVars, videoFps, settings, isSpaceHeld, clockVars,
                    isUnsavedDialogOpen, pendingAction, exportJob, released, video, fpsProbe,
                    viewVars, pointerVars >>

\* numObjects after an import of newPoints
ImportedNumObjects(newPoints) == MaxObjectId(newPoints, 1)

\* reader.onload of handleCSVImport
CsvOnload ==
    /\ csvReader # <<>>
    /\ csvReader' = <<>>
    /\ LET newPoints == parseCSV(csvReader[1])
       IN  /\ points' = newPoints
           /\ numObjects' = ImportedNumObjects(newPoints)
    /\ activeObjectId' = 1
    /\ isDirty' = FALSE
    /\ released' = <<>>
    /\ ev' = [type |-> "csvOnload"]
    /\ UNCHANGED << videoFps, settings, isSpaceHeld, clockVars, isUnsavedDialogOpen,
                    pendingAction, picker, exportJob, video, fpsProbe, viewVars,
                    pointerVars >>

\* ------------------------------------------------------------------------
\* useViewport
\* ------------------------------------------------------------------------
\* Math.min(cw / vw, ch / vh)
FitScale(c, dims) ==
    Min((c.w * ScaleUnit) \div dims.w, (c.h * ScaleUnit) \div dims.h)

\* fitToScreen in a container of size c: scale = min(cw / vw, ch / vh), centred
fitToScreen(c, dims) ==
    [x |-> (c.w * ScaleUnit - dims.w * FitScale(c, dims)) \div (2 * ScaleUnit),
     y |-> (c.h * ScaleUnit - dims.h * FitScale(c, dims)) \div (2 * ScaleUnit),
     scale |-> FitScale(c, dims)]

\* onLoadedMetadata, with the initial auto-fit effect it triggers
OnLoadedMetadata ==
    /\ WorkspaceMounted
    /\ videoDimensions.w = 0
    /\ videoDimensions' = [w |-> video[1].w, h |-> video[1].h]
    /\ transform' = fitToScreen(container, [w |-> video[1].w, h |-> video[1].h])
    /\ hasInitialFit' = TRUE
    /\ ev' = [type |-> "loadedMetadata"]
    /\ UNCHANGED << projectVars, videoFps, settings, isSpaceHeld, clockVars, flowVars,
                    video, fpsProbe, pointerVars, container >>

\* ------------------------------------------------------------------------
\* useTrackOverlay: the marker list of the workspace
\* ------------------------------------------------------------------------
RECURSIVE GCD(_, _)
GCD(a, b) == IF b = 0 THEN a ELSE GCD(b, a % b)

RECURSIVE InsertByKey(_, _)
\* insert e behind every element whose key is not greater (a stable sort step)
InsertByKey(sorted, e) ==
    IF sorted = <<>> THEN <<e>>
    ELSE LET n == Len(sorted)
         IN  IF sorted[n].sortKey <= e.sortKey THEN Append(sorted, e)
             ELSE Append(InsertByKey(SubSeq(sorted, 1, n - 1), e), sorted[n])

RECURSIVE SortBySortKey(_)
\* Array.prototype.sort((a, b) => a.sortKey - b.sortKey), which is stable
SortBySortKey(seq) ==
    IF seq = <<>> THEN <<>>
    ELSE LET n == Len(seq)
         IN  InsertByKey(SortBySortKey(SubSeq(seq, 1, n - 1)), seq[n])

\* settings.samplingRateNum > 0 ? (den * 1000) / num : 0
samplingIntervalMs ==
    IF settings.samplingRateNum > 0
    THEN (settings.samplingRateDen * Ms(1000)) \div settings.samplingRateNum
    ELSE 0

windowDuration == settings.trailLength * samplingIntervalMs
\* sort keys are kept as whole numbers: sortKey of the code times KeyScale
KeyScale == Max(windowDuration, 1)

currentFrameIndex == getFrameIndex(syncTime, videoFps)

\* points.filter(p => getFrameIndex(p.timestamp, videoFps) === frame)
InFrame(vp, frame) ==
    FilterSeq(vp, [i \in 1..Len(vp) |-> getFrameIndex(vp[i].timestamp, videoFps) = frame])

\* the marker of a current point; a point being dragged shows at the drag position
CurrentCircle(p) ==
    LET dragged == draggedPoint # <<>>
                   /\ draggedPoint[1].timestamp = p.timestamp
                   /\ draggedPoint[1].objectId = p.objectId
    IN  [type |-> "circle",
         x |-> IF dragged THEN draggedPoint[1].x ELSE p.x,
         y |-> IF dragged THEN draggedPoint[1].y ELSE p.y,
         objectId |-> p.objectId,
         radiusNum |-> 8, radiusDen |-> 1,
         isCurrent |-> ~isSpaceHeld,
         label |-> TRUE,
         sortKey |-> 10 * KeyScale]

CurrentCircles(cur) == [i \in 1..Len(cur) |-> CurrentCircle(cur[i])]

\* 1. current points, as circles
CurrentElements == CurrentCircles(InFrame(visiblePoints, currentFrameIndex))

\* points.filter(strictly earlier frame, inside the trail window)
TrailFilter(vp) ==
    FilterSeq(vp, [i \in 1..Len(vp) |->
        getFrameIndex(vp[i].timestamp, videoFps) < currentFrameIndex
        /\ vp[i].timestamp >= syncTime - windowDuration])

NewestFirstKeys(kept) ==
    [i \in 1..Len(kept) |-> [sortKey |-> 0 - kept[i].timestamp, p |-> kept[i]]]
KeyedPoints(sorted) == [i \in 1..Len(sorted) |-> sorted[i].p]

\* an export that writes the object id before the timestamp
pointsToCSV_ColumnsSwapped(pts) ==
    << HeaderLine >>
    \o [i \in 1..Len(pts) |->
          <<Num(pts[i].objectId), Num(pts[i].timestamp), Num(pts[i].x), Num(pts[i].y)>>]
    \o << BlankLine >>

\* pointsToCSV, as the lines csvText.split('\n') yields: the header, one row
\* per point, and the empty string behind the last newline.  `${n}` writes the
\* shortest numeric literal that Number() reads back as n.  The stable sort
\* by timestamp, then object id, is a stable sort by object id followed by a
\* stable sort by timestamp
pointsToCSV(pts) ==
    LET byObject == KeyedPoints(SortBySortKey(
                        [i \in 1..Len(pts) |-> [sortKey |-> pts[i].objectId, p |-> pts[i]]]))
        sorted == KeyedPoints(SortBySortKey(
                        [i \in 1..Len(pts) |->
                            [sortKey |-> byObject[i].timestamp, p |-> byObject[i]]]))
    IN  << HeaderLine >>
        \o [i \in 1..Len(sorted) |->
              Row(sorted[i].timestamp, sorted[i].objectId, sorted[i].x, sorted[i].y)]
        \o << BlankLine >>

\* the point lists that are exported: up to MaxPoints points, duplicates and
\* every order included
ExportedPoints ==
    UNION {[1..n -> [timestamp : {0, Ms(1000)}, objectId : {1, 2}, x : {10}, y : {10}]] :
             n \in 0..MaxPoints}

\* a file without header and without a final newline, its second row short
\* of a field
BareCsv == << Row(Ms(1000), 1, 10, 10), <<Num(0), Num(1), Num(10)>> >>

\* the files picked in the CSV picker: the two files above, exports of the
\* application, and a file that was not written by it
CsvTexts == CsvFiles \cup {BareCsv} \cup {pointsToCSV(pts) : pts \in ExportedPoints}

\* .sort((a, b) => b.timestamp - a.timestamp): newest first
TrailPoints == KeyedPoints(SortBySortKey(NewestFirstKeys(TrailFilter(visiblePoints))))

LabelledBy(elements) == {elements[i].objectId : i \in 1..Len(elements)}

\* the marker of trail point i: radius 8 * (1 - 0.6 * relativeAge); the first
\* trail point of an object without a label so far takes the label
TrailCircle(tp, i, labelled) ==
    LET age == Min(windowDuration, syncTime - tp[i].timestamp)
        g == GCD(40 * windowDuration - 24 * age, 5 * windowDuration)
    IN  [type |-> "circle", x |-> tp[i].x, y |-> tp[i].y,
         objectId |-> tp[i].objectId,
         radiusNum |-> (40 * windowDuration - 24 * age) \div g,
         radiusDen |-> (5 * windowDuration) \div g,
         isCurrent |-> FALSE,
         label |-> (tp[i].objectId \notin labelled
                    /\ \A j \in 1..(i - 1) : tp[j].objectId # tp[i].objectId),
         sortKey |-> 5 * KeyScale - age]

TrailCircles(tp, labelled) == [i \in 1..Len(tp) |-> TrailCircle(tp, i, labelled)]

\* 2. trail points, as shrinking circles
TrailElements(labelled) ==
    IF windowDuration > 0 THEN TrailCircles(TrailPoints, labelled) ELSE <<>>

RECURSIVE Distinct(_)
\* the insertion order of new Set(seq)
Distinct(seq) ==
    IF seq = <<>> THEN <<>>
    ELSE LET n == Len(seq)
             front == Distinct(SubSeq(seq, 1, n - 1))
         IN  IF \E i \in 1..Len(front) : front[i] = seq[n] THEN front
             ELSE Append(front, seq[n])

\* new Set(points.map(p => p.objectId)), then add(activeObjectId)
AllObjIds(vp) == Distinct([i \in 1..Len(vp) |-> vp[i].objectId] \o <<activeObjectId>>)

\* the points of object id before the current frame
ObjPointsBefore(vp, id) ==
    FilterSeq(vp, [i \in 1..Len(vp) |->
        vp[i].objectId = id
        /\ getFrameIndex(vp[i].timestamp, videoFps) < currentFrameIndex])

\* last-known markers for every object with a point before now, labelled or not
LastKnownIds_IgnoresLabels(vp, ids, labelled) ==
    FilterSeq(ids, [i \in 1..Len(ids) |-> ObjPointsBefore(vp, ids[i]) # <<>>])

\* the objects that get a last-known marker: no label yet, a point before now
LastKnownIds(vp, ids, labelled) ==
    FilterSeq(ids, [i \in 1..Len(ids) |->
        ids[i] \notin labelled /\ ObjPointsBefore(vp, ids[i]) # <<>>])

LastKnownSquare(last, id) ==
    [type |-> "square", x |-> last.x, y |-> last.y,
     objectId |-> id,
     radiusNum |-> 32, radiusDen |-> 5,
     isCurrent |-> FALSE,
     label |-> TRUE,
     sortKey |-> 8 * KeyScale]

LastKnownSquares(vp, ids) ==
    [i \in 1..Len(ids) |-> LastKnownSquare(LatestOf(ObjPointsBefore(vp, ids[i])), ids[i])]

LastKnownOf(vp, labelled) ==
    LastKnownSquares(vp, LastKnownIds(vp, AllObjIds(vp), labelled))

\* 3. last-known markers, as squares, for the objects without a label
LastKnownElements(labelled) == LastKnownOf(visiblePoints, labelled)

WithLastKnown(current, trail) ==
    SortBySortKey(current \o trail
                  \o LastKnownElements(LabelledBy(current) \cup LabelledBy(trail)))

WithTrail(current) == WithLastKnown(current, TrailElements(LabelledBy(current)))

uiElements ==
    IF videoDimensions.w = 0 THEN <<>> ELSE WithTrail(CurrentElements)

\* ------------------------------------------------------------------------
\* useViewport: constrain and canPan
\* ------------------------------------------------------------------------
MIN_SCALE == 1
MAX_SCALE == 10

\* Math.max(minAllowedScale, Math.min(scale, MAX_SCALE))
ClampScale(scale) ==
    Max(Min(FitScale(container, videoDimensions), MIN_SCALE * ScaleUnit),
        Min(scale, MAX_SCALE * ScaleUnit))

\* a constrain that clamps the offset without centring a video smaller than
\* the container
ConstrainOffset_NoCentring(c, scaled, offset) ==
    Max((c * ScaleUnit - scaled) \div ScaleUnit, Min(offset, 0))

\* the offset along one axis: centred when the scaled video (scaled, in
\* tenths of a pixel) fits the container side c, else kept within [c - scaled, 0]
ConstrainOffset(c, scaled, offset) ==
    IF scaled <= c * ScaleUnit
    THEN (c * ScaleUnit - scaled) \div (2 * ScaleUnit)
    ELSE Max((c * ScaleUnit - scaled) \div ScaleUnit, Min(offset, 0))

getConstrainedTransform(proposed) ==
    IF videoDimensions.w = 0 THEN proposed
    ELSE [x |-> ConstrainOffset(ContainerW, videoDimensions.w * ClampScale(proposed.scale),
                                proposed.x),
          y |-> ConstrainOffset(ContainerH, videoDimensions.h * ClampScale(proposed.scale),
                                proposed.y),
          scale |-> ClampScale(proposed.scale)]

\* scaledW > cw + 0.5 || scaledH > ch + 0.5
canPan ==
    /\ videoDimensions.w # 0
    /\ \/ 2 * videoDimensions.w * transform.scale > (2 * ContainerW + 1) * ScaleUnit
       \/ 2 * videoDimensions.h * transform.scale > (2 * ContainerH + 1) * ScaleUnit

\* ------------------------------------------------------------------------
\* useCanvasInteraction
\* ------------------------------------------------------------------------
\* dist < el.radius + 6, on squares (both sides are positive); distances in
\* tenths of a pixel
HitsElement(el, relX, relY) ==
    LET dx == relX * ScaleUnit - (el.x * transform.scale + transform.x * ScaleUnit)
        dy == relY * ScaleUnit - (el.y * transform.scale + transform.y * ScaleUnit)
        reach == (el.radiusNum + 6 * el.radiusDen) * ScaleUnit
        dist2 == dx * dx + dy * dy
        whole == reach \div el.radiusDen
        part == reach % el.radiusDen
    IN  \* dist < radius + 6, compared around the whole part of the reach
        IF dist2 < whole * whole THEN TRUE
        ELSE IF dist2 >= (whole + 1) * (whole + 1) THEN FALSE
        ELSE (dist2 - whole * whole) * el.radiusDen * el.radiusDen
                 < 2 * whole * part * el.radiusDen + part * part

\* a hit test that walks the list from its start
TopHit_FromStart(els, pos) ==
    LET hits == {i \in 1..Len(els) : HitsElement(els[i], pos[1], pos[2])}
    IN  IF hits = {} THEN 0 ELSE CHOOSE i \in hits : \A j \in hits : i <= j

\* the last element of els under the position, 0 for none
TopHit(els, pos) ==
    LET hits == {i \in 1..Len(els) : HitsElement(els[i], pos[1], pos[2])}
    IN  IF hits = {} THEN 0 ELSE CHOOSE i \in hits : \A j \in hits : j <= i

\* findElementAtScreenPos: index of the topmost element under the position, 0 for null
findElementAtScreenPos(pos) == TopHit(uiElements, pos)

\* screen to video space
ToVideoX(pos) == ((pos[1] - transform.x) * ScaleUnit) \div transform.scale
ToVideoY(pos) == ((pos[2] - transform.y) * ScaleUnit) \div transform.scale
\* the position maps to whole video coordinates: the divisions above are exact
MapsWhole(pos) ==
    /\ ((pos[1] - transform.x) * ScaleUnit) % transform.scale = 0
    /\ ((pos[2] - transform.y) * ScaleUnit) % transform.scale = 0

InsideVideo(pos) ==
    ~(ToVideoX(pos) < 0 \/ ToVideoX(pos) > videoDimensions.w
      \/ ToVideoY(pos) < 0 \/ ToVideoY(pos) > videoDimensions.h)

\* handleLogPoint without the isPlaying check
LogPermitted_WhilePlaying == videoDimensions.w # 0 /\ IsTracking(syncTime)

\* handleLogPoint's guards up to the bounds check
LogPermitted == videoDimensions.w # 0 /\ ~isPlaying /\ IsTracking(syncTime)

\* the point handleLogPoint hands to onAddPoint
LoggedPoint(pos) ==
    [timestamp |-> getFrameTime(getFrameIndex(syncTime, videoFps), videoFps),
     objectId |-> activeObjectId,
     x |-> ToVideoX(pos),
     y |-> ToVideoY(pos)]

\* handleLogPoint
handleLogPoint(pos) ==
    IF LogPermitted /\ InsideVideo(pos)
    THEN /\ points' = addPoint(points, LoggedPoint(pos))
         /\ Len(points') <= MaxPoints
         /\ isDirty' = TRUE
    ELSE UNCHANGED << points, isDirty >>

\* candidateObj for a hit element: its object and, for a current circle, the
\* first point of that object in the current frame (points.find)
HitCandidate(hitElement, vp) ==
    LET found == {i \in 1..Len(vp) :
                     /\ vp[i].objectId = hitElement.objectId
                     /\ getFrameIndex(vp[i].timestamp, videoFps) = currentFrameIndex}
    IN  << [objectId |-> hitElement.objectId,
            point |-> IF hitElement.isCurrent /\ hitElement.type = "circle" /\ found # {}
                      THEN << vp[CHOOSE i \in found : \A j \in found : i <= j] >>
                      ELSE <<>>] >>

CandidateOf(els, hit, vp) == IF hit = 0 THEN <<>> ELSE HitCandidate(els[hit], vp)

\* the candidate remembered at pointer-down: <<>> when nothing was hit
CandidateAt(pos) == CandidateOf(uiElements, findElementAtScreenPos(pos), visiblePoints)

\* a pointer-down that starts a gesture with the logging modifier held as well
PointerDownBody_LogsAndArms(pos, isCtrl) ==
    /\ PageActive
    /\ WorkspaceMounted
    /\ IF isSpaceHeld
       THEN UNCHANGED << points, isDirty, stateRef >>
       ELSE /\ stateRef' = [type |-> "PRE_DRAG", startX |-> pos[1],
                            startY |-> pos[2], candidateObj |-> CandidateAt(pos)]
            /\ IF isCtrl THEN handleLogPoint(pos) ELSE UNCHANGED << points, isDirty >>
    /\ ev' = [type |-> "pointerDown", pos |-> pos, isCtrl |-> isCtrl,
              count |-> Len(points)]
    /\ UNCHANGED << activeObjectId, numObjects, videoFps, settings, isSpaceHeld,
                    clockVars, flowVars, video, fpsProbe, viewVars, draggedPoint >>

\* the body of handlePointerDown for the primary button, with or without
\* Ctrl / Meta: the handler does not look at the current interaction state
\* nor at the pointer that sent the event
PointerDownBody(pos, isCtrl) ==
    /\ PageActive
    /\ WorkspaceMounted
    /\ IF isSpaceHeld
       THEN UNCHANGED << points, isDirty, stateRef >>
       ELSE IF isCtrl
            THEN handleLogPoint(pos) /\ stateRef' = stateRef
            ELSE /\ stateRef' = [type |-> "PRE_DRAG", startX |-> pos[1],
                                 startY |-> pos[2], candidateObj |-> CandidateAt(pos)]
                 /\ UNCHANGED << points, isDirty >>
    /\ ev' = [type |-> "pointerDown", pos |-> pos, isCtrl |-> isCtrl,
              count |-> Len(points)]
    /\ UNCHANGED << activeObjectId, numObjects, videoFps, settings, isSpaceHeld,
                    clockVars, flowVars, video, fpsProbe, viewVars, draggedPoint >>

\* handlePointerDown of a pointer that starts a gesture: no gesture is in
\* progress
handlePointerDown(pos, isCtrl) ==
    /\ stateRef.type = "IDLE"
    /\ PointerDownBody(pos, isCtrl)

\* handlePointerDown of a further pointer (a second finger, a pen next to the
\* mouse) while the gesture of the first one is in progress: the container
\* receives the pointerdown of every pointer, each with button 0
handleSecondPointerDown(pos, isCtrl) ==
    /\ stateRef.type # "IDLE"
    /\ PointerDownBody(pos, isCtrl)

DRAG_THRESHOLD == 5

\* a threshold that starts a pan whether or not the view can be panned
AfterThreshold_PansAnyView(state, pos) ==
    LET dx == pos[1] - state.startX
        dy == pos[2] - state.startY
    IN  IF dx * dx + dy * dy > DRAG_THRESHOLD * DRAG_THRESHOLD
        THEN IF state.candidateObj # <<>> /\ state.candidateObj[1].point # <<>>
             THEN [type |-> "DRAGGING", originalPoint |-> state.candidateObj[1].point[1]]
             ELSE [type |-> "PANNING", lastX |-> pos[1], lastY |-> pos[2]]
        ELSE state

\* the state handlePointerMove resolves PRE_DRAG to at position pos
AfterThreshold(state, pos) ==
    LET dx == pos[1] - state.startX
        dy == pos[2] - state.startY
    IN  IF dx * dx + dy * dy > DRAG_THRESHOLD * DRAG_THRESHOLD
        THEN IF state.candidateObj # <<>> /\ state.candidateObj[1].point # <<>>
             THEN [type |-> "DRAGGING", originalPoint |-> state.candidateObj[1].point[1]]
             ELSE IF canPan
                  THEN [type |-> "PANNING", lastX |-> pos[1], lastY |-> pos[2]]
                  ELSE IDLE
        ELSE state

\* a drag that follows the pointer beyond the video
ClampToVideo_Unclamped(v, limit) == v

\* clampedX, clampedY: Math.max(0, Math.min(v, limit))
ClampToVideo(v, limit) == Max(0, Min(v, limit))

\* handlePointerMove; primaryDown is bit 0 of e.buttons.  A move in the IDLE
\* state only updates the debug overlay and is left out as a step
handlePointerMove(pos, primaryDown) ==
    /\ PageActive
    /\ WorkspaceMounted
    /\ stateRef.type # "IDLE"
    /\ IF stateRef.type = "IDLE"
       THEN UNCHANGED << stateRef, draggedPoint, transform >>
       ELSE IF ~primaryDown
            THEN stateRef' = IDLE /\ draggedPoint' = <<>> /\ transform' = transform
            ELSE LET resolved == IF stateRef.type = "PRE_DRAG"
                                 THEN AfterThreshold(stateRef, pos)
                                 ELSE stateRef
                 IN  /\ draggedPoint' =
                          (IF resolved.type = "DRAGGING"
                           THEN << [resolved.originalPoint EXCEPT
                                      !.x = ClampToVideo(ToVideoX(pos), videoDimensions.w),
                                      !.y = ClampToVideo(ToVideoY(pos), videoDimensions.h)] >>
                           ELSE IF resolved.type = "IDLE" THEN <<>>
                           ELSE draggedPoint)
                     /\ transform' =
                          (IF resolved.type = "PANNING"
                           THEN getConstrainedTransform(
                                    [transform EXCEPT !.x = @ + (pos[1] - resolved.lastX),
                                                      !.y = @ + (pos[2] - resolved.lastY)])
                           ELSE transform)
                     /\ stateRef' =
                          (IF resolved.type = "PANNING"
                           THEN [resolved EXCEPT !.lastX = pos[1], !.lastY = pos[2]]
                           ELSE resolved)
    /\ ev' = [type |-> "pointerMove", primaryDown |-> primaryDown, pos |-> pos,
              from |-> stateRef.type]
    /\ UNCHANGED << projectVars, videoFps, settings, isSpaceHeld, clockVars, flowVars,
                    video, fpsProbe, hasInitialFit, videoDimensions, container >>

\* handlePointerUp
handlePointerUp ==
    /\ PageActive
    /\ WorkspaceMounted
    /\ activeObjectId' =
         (IF stateRef.type = "PRE_DRAG" /\ stateRef.candidateObj # <<>>
          THEN stateRef.candidateObj[1].objectId
          ELSE activeObjectId)
    /\ IF stateRef.type = "DRAGGING" /\ draggedPoint # <<>>
       THEN /\ points' = addPoint(points, draggedPoint[1])
            /\ Len(points') <= MaxPoints
            /\ isDirty' = TRUE
       ELSE UNCHANGED << points, isDirty >>
    /\ stateRef' = IDLE
    /\ draggedPoint' = <<>>
    /\ ev' = [type |-> "pointerUp"]
    /\ UNCHANGED << numObjects, videoFps, settings, isSpaceHeld, clockVars, flowVars,
                    video, fpsProbe, viewVars >>

\* the move drags a point: it is in DRAGGING, or leaves PRE_DRAG for it
DragsTo(pos) ==
    \/ stateRef.type = "DRAGGING"
    \/ stateRef.type = "PRE_DRAG" /\ AfterThreshold(stateRef, pos).type = "DRAGGING"

\* a cancel that leaves the transient dragged point in place
handlePointerCancel_KeepsDrag ==
    /\ WorkspaceMounted
    /\ stateRef' = IDLE
    /\ draggedPoint' = draggedPoint
    /\ ev' = [type |-> "pointerCancel", from |-> stateRef.type]
    /\ UNCHANGED << projectVars, videoFps, settings, isSpaceHeld, clockVars, flowVars,
                    video, fpsProbe, viewVars >>

\* handlePointerCancel
handlePointerCancel ==
    /\ WorkspaceMounted
    /\ stateRef' = IDLE
    /\ draggedPoint' = <<>>
    /\ ev' = [type |-> "pointerCancel", from |-> stateRef.type]
    /\ UNCHANGED << projectVars, videoFps, settings, isSpaceHeld, clockVars, flowVars,
                    video, fpsProbe, viewVars >>

\* handleLostPointerCapture
handleLostPointerCapture ==
    /\ WorkspaceMounted
    /\ IF stateRef.type # "IDLE"
       THEN stateRef' = IDLE /\ draggedPoint' = <<>>
       ELSE UNCHANGED << stateRef, draggedPoint >>
    /\ ev' = [type |-> "lostPointerCapture"]
    /\ UNCHANGED << projectVars, videoFps, settings, isSpaceHeld, clockVars, flowVars,
                    video, fpsProbe, viewVars >>

\* handleWheel at position pos of the container, direction 1 (zoom in) or
\* -1 (zoom out): the scale changes by a tenth of itself and the point under
\* the pointer stays.  Steps whose result is not a whole number of tenths of
\* the scale, or of pixels of the offset, are left out
handleWheel(pos, direction) ==
    /\ PageActive
    /\ WorkspaceMounted
    /\ IF videoDimensions.w = 0
       THEN transform' = transform
       ELSE /\ (transform.scale * (ScaleUnit + direction)) % ScaleUnit = 0
            /\ LET nextScale ==
                       ClampScale((transform.scale * (ScaleUnit + direction)) \div ScaleUnit)
               IN  /\ ((pos[1] - transform.x) * nextScale) % transform.scale = 0
                   /\ ((pos[2] - transform.y) * nextScale) % transform.scale = 0
                   /\ transform' = getConstrainedTransform(
                         [x |-> pos[1] - ((pos[1] - transform.x) * nextScale)
                                            \div transform.scale,
                          y |-> pos[2] - ((pos[2] - transform.y) * nextScale)
                                            \div transform.scale,
                          scale |-> nextScale])
    /\ ev' = [type |-> "wheel"]
    /\ UNCHANGED << projectVars, videoFps, settings, isSpaceHeld, clockVars, flowVars,
                    video, fpsProbe, hasInitialFit, videoDimensions, container,
                    pointerVars >>

\* a resize that re-fits only a view the user has not zoomed or panned
ContainerResize_KeepsManualView(size) ==
    /\ WorkspaceMounted
    /\ size # container
    /\ container' = size
    /\ transform' = (IF hasInitialFit /\ videoDimensions.w # 0
                        /\ transform = fitToScreen(container, videoDimensions)
                     THEN fitToScreen(size, videoDimensions)
                     ELSE transform)
    /\ ev' = [type |-> "resize", from |-> transform]
    /\ UNCHANGED << projectVars, videoFps, settings, isSpaceHeld, clockVars, flowVars,
                    video, fpsProbe, hasInitialFit, videoDimensions, pointerVars >>

\* the ResizeObserver callback for a container of the new size, with the
\* re-fit effect that resizeTick triggers
ContainerResize(size) ==
    /\ WorkspaceMounted
    /\ size # container
    /\ container' = size
    /\ transform' = (IF hasInitialFit /\ videoDimensions.w # 0
                     THEN fitToScreen(size, videoDimensions)
                     ELSE transform)
    /\ ev' = [type |-> "resize", from |-> transform]
    /\ UNCHANGED << projectVars, videoFps, settings, isSpaceHeld, clockVars, flowVars,
                    video, fpsProbe, hasInitialFit, videoDimensions, pointerVars >>

\* ------------------------------------------------------------------------
\* The specification
\* ------------------------------------------------------------------------
Next ==
    \/ KeySpaceDown
    \/ KeySpaceUp
    \/ NextObject
    \/ PrevObject
    \/ AddObject
    \/ DeleteCurrent
    \/ \E nowMs \in TickTimes \cup {vidTime} : Tick(nowMs)
    \/ VideoEnded
    \/ JumpToFirst
    \/ JumpToFinal
    \/ JumpToPrevious
    \/ JumpToNext
    \/ \E field \in {"samplingRateNum", "samplingRateDen"}, v \in SamplingValues :
         SetSamplingRate(field, v)
    \/ StartScreenPick
    \/ handleLoadVideoClick
    \/ handleImportCSVClick
    \/ DialogClose
    \/ handleDiscardAndProceed
    \/ \E origin \in {"button", "dialog"} : ExportStart(origin)
    \/ \E outcome \in ExportOutcomes : ExportFinish(outcome)
    \/ PickerCancel
    \/ \E file \in Videos : handleVideoUpload(file)
    \/ \E ok \in BOOLEAN : FpsProbeDone(ok)
    \/ \E text \in CsvFiles : handleCSVImport(text)
    \/ CsvOnload
    \/ OnLoadedMetadata
    \/ \E pos \in PointerPos, isCtrl \in BOOLEAN : handlePointerDown(pos, isCtrl)
    \/ \E pos \in PointerPos, isCtrl \in BOOLEAN : handleSecondPointerDown(pos, isCtrl)
    \/ \E pos \in WheelPos, direction \in {0 - 1, 1} : handleWheel(pos, direction)
    \/ \E size \in ContainerSizes : ContainerResize(size)
    \/ \E v \in TrailLengths : SetTrailLength(v)
    \/ \E pos \in PointerPos, primaryDown \in BOOLEAN : handlePointerMove(pos, primaryDown)
    \/ handlePointerUp
    \/ handlePointerCancel
    \/ handleLostPointerCapture

Spec == Init /\ [][Next]_vars

\* ------------------------------------------------------------------------
\* Specifications of parts of the program.  Both explore the runs in which an
\* asynchronous completion (the frame-rate probe, the CSV file read) is
\* handled before the next input, and in which the probe succeeds.
\* ------------------------------------------------------------------------
Quiescent == fpsProbe = <<>> /\ csvReader = <<>>

\* the project state under pointer gestures, object controls, export, the
\* unsaved-changes flow, CSV import and video load, on a paused video
NextProject ==
    \/ Quiescent /\ StartScreenPick
    \/ Quiescent /\ \E file \in Videos : handleVideoUpload(file)
    \/ Quiescent /\ OnLoadedMetadata
    \/ Quiescent /\ \E pos \in PointerPos, isCtrl \in BOOLEAN : handlePointerDown(pos, isCtrl)
    \/ Quiescent /\ \E pos \in PointerPos, primaryDown \in BOOLEAN :
         handlePointerMove(pos, primaryDown)
    \/ Quiescent /\ handlePointerUp
    \/ Quiescent /\ NextObject
    \/ Quiescent /\ PrevObject
    \/ Quiescent /\ AddObject
    \/ Quiescent /\ DeleteCurrent
    \/ Quiescent /\ handleLoadVideoClick
    \/ Quiescent /\ handleImportCSVClick
    \/ Quiescent /\ DialogClose
    \/ Quiescent /\ handleDiscardAndProceed
    \/ Quiescent /\ \E origin \in {"button", "dialog"} : ExportStart(origin)
    \/ Quiescent /\ \E outcome \in ExportOutcomes : ExportFinish(outcome)
    \/ Quiescent /\ PickerCancel
    \/ Quiescent /\ handleCSVImport(OffGridCsv)
    \/ FpsProbeDone(TRUE)
    \/ CsvOnload

SpecProject == Init /\ [][NextProject]_vars

\* the object controls: add / next / previous object, selection clicks on
\* markers, import of any of the CSV files and video load
NextObjects ==
    \/ Quiescent /\ StartScreenPick
    \/ Quiescent /\ \E file \in Videos : handleVideoUpload(file)
    \/ Quiescent /\ OnLoadedMetadata
    \/ Quiescent /\ \E pos \in PointerPos : handlePointerDown(pos, FALSE)
    \/ Quiescent /\ handlePointerUp
    \/ Quiescent /\ NextObject
    \/ Quiescent /\ PrevObject
    \/ Quiescent /\ AddObject
    \/ Quiescent /\ handleLoadVideoClick
    \/ Quiescent /\ handleImportCSVClick
    \/ Quiescent /\ PickerCancel
    \/ Quiescent /\ \E text \in CsvFiles : handleCSVImport(text)
    \/ FpsProbeDone(TRUE)
    \/ CsvOnload

SpecObjects == Init /\ [][NextObjects]_vars

\* logging and deletion against the playback clock: Ctrl+clicks, the delete
\* key, Space, frame callbacks, navigation seeks and CSV import
NextClock ==
    \/ Quiescent /\ StartScreenPick
    \/ Quiescent /\ \E file \in Videos : handleVideoUpload(file)
    \/ Quiescent /\ OnLoadedMetadata
    \/ Quiescent /\ \E pos \in PointerPos : handlePointerDown(pos, TRUE)
    \/ Quiescent /\ NextObject
    \/ Quiescent /\ AddObject
    \/ Quiescent /\ DeleteCurrent
    \/ Quiescent /\ KeySpaceDown
    \/ Quiescent /\ KeySpaceUp
    \/ Quiescent /\ \E nowMs \in TickTimes \cup {vidTime} : Tick(nowMs)
    \/ Quiescent /\ VideoEnded
    \/ Quiescent /\ JumpToFirst
    \/ Quiescent /\ JumpToFinal
    \/ Quiescent /\ handleImportCSVClick
    \/ Quiescent /\ PickerCancel
    \/ Quiescent /\ handleCSVImport(OffGridCsv)
    \/ FpsProbeDone(TRUE)
    \/ CsvOnload

SpecClock == Init /\ [][NextClock]_vars

\* playback: Space, frame callbacks at coarse and fine media times, the end
\* of the media, the sampling-rate spin boxes, navigation seeks, logging and
\* deleting; the frame-rate probe may complete at any time, with either outcome
\* pointer gestures on a paused video at frame 0, on the fitted and on the
\* zoomed view: presses of one and of a further pointer, moves, release,
\* cancel and lost capture, zooming in by the wheel, and import of the CSV
\* file with markers of two objects.  Drags are taken at positions that map
\* to whole video coordinates
NextGesture ==
    \/ Quiescent /\ StartScreenPick
    \/ Quiescent /\ \E file \in Videos : handleVideoUpload(file)
    \/ Quiescent /\ OnLoadedMetadata
    \/ Quiescent /\ handleImportCSVClick
    \/ Quiescent /\ handleCSVImport(SparseCsv)
    \/ Quiescent /\ DialogClose
    \/ Quiescent /\ handleDiscardAndProceed
    \/ Quiescent /\ \E pos \in GesturePos : handlePointerDown(pos, FALSE)
    \/ Quiescent /\ \E pos \in GesturePos : handleSecondPointerDown(pos, FALSE)
    \/ Quiescent /\ \E pos \in GesturePos, primaryDown \in BOOLEAN :
         /\ (primaryDown /\ DragsTo(pos)) => MapsWhole(pos)
         /\ handlePointerMove(pos, primaryDown)
    \/ Quiescent /\ handlePointerUp
    \/ Quiescent /\ handlePointerCancel
    \/ Quiescent /\ handleLostPointerCapture
    \/ Quiescent /\ \E pos \in WheelPos : handleWheel(pos, 1)
    \/ FpsProbeDone(TRUE)
    \/ CsvOnload

SpecGesture == Init /\ [][NextGesture]_vars

\* the view of a loaded video: resizes of the container, the wheel in both
\* directions, pans by pointer gestures on the background, and video reload
NextView ==
    \/ StartScreenPick
    \/ \E file \in Videos : handleVideoUpload(file)
    \/ OnLoadedMetadata
    \/ FpsProbeDone(TRUE)
    \/ handleLoadVideoClick
    \/ \E size \in ContainerSizes : ContainerResize(size)
    \/ \E pos \in WheelPos, direction \in {0 - 1, 1} : handleWheel(pos, direction)
    \/ \E pos \in GesturePos : handlePointerDown(pos, FALSE)
    \/ \E pos \in GesturePos, primaryDown \in BOOLEAN : handlePointerMove(pos, primaryDown)
    \/ handlePointerUp

SpecView == Init /\ [][NextView]_vars

\* import of CSV files into a loaded video
NextCsv ==
    \/ StartScreenPick
    \/ \E file \in Videos : handleVideoUpload(file)
    \/ OnLoadedMetadata
    \/ FpsProbeDone(TRUE)
    \/ handleImportCSVClick
    \/ PickerCancel
    \/ \E text \in CsvTexts : handleCSVImport(text)
    \/ CsvOnload

SpecCsv == Init /\ [][NextCsv]_vars

\* import and video load next to logging, with the file read and the
\* frame-rate probe completing at any time
NextImport ==
    \/ StartScreenPick
    \/ \E file \in Videos : handleVideoUpload(file)
    \/ OnLoadedMetadata
    \/ FpsProbeDone(TRUE)
    \/ \E pos \in PointerPos : handlePointerDown(pos, TRUE)
    \/ handleLoadVideoClick
    \/ handleImportCSVClick
    \/ DialogClose
    \/ handleDiscardAndProceed
    \/ ExportStart("dialog")
    \/ \E outcome \in ExportOutcomes : ExportFinish(outcome)
    \/ PickerCancel
    \/ handleCSVImport(OffGridCsv)
    \/ CsvOnload

SpecImport == Init /\ [][NextImport]_vars

\* retouching on a paused video: logging clicks, alone and during a gesture,
\* drags of the logged points, and the X key
NextRetouch ==
    \/ StartScreenPick
    \/ \E file \in Videos : handleVideoUpload(file)
    \/ OnLoadedMetadata
    \/ FpsProbeDone(TRUE)
    \/ \E pos \in GesturePos, isCtrl \in BOOLEAN : handlePointerDown(pos, isCtrl)
    \/ \E pos \in GesturePos : handleSecondPointerDown(pos, TRUE)
    \/ \E pos \in GesturePos, primaryDown \in BOOLEAN :
         /\ (primaryDown /\ DragsTo(pos)) => MapsWhole(pos)
         /\ handlePointerMove(pos, primaryDown)
    \/ handlePointerUp
    \/ handlePointerCancel
    \/ AddObject
    \/ NextObject
    \/ DeleteCurrent

SpecRetouch == Init /\ [][NextRetouch]_vars

\* the overlay of imported tracks along the playback clock: import of the
\* CSV files, playback, trail length, and presses on the markers
NextOverlay ==
    \/ Quiescent /\ StartScreenPick
    \/ Quiescent /\ \E file \in Videos : handleVideoUpload(file)
    \/ Quiescent /\ OnLoadedMetadata
    \/ Quiescent /\ handleImportCSVClick
    \/ Quiescent /\ \E text \in {OffGridCsv, TrailCsv} : handleCSVImport(text)
    \/ Quiescent /\ KeySpaceDown
    \/ Quiescent /\ KeySpaceUp
    \/ Quiescent /\ \E nowMs \in TickTimes \cup {vidTime} : Tick(nowMs)
    \/ Quiescent /\ VideoEnded
    \/ Quiescent /\ \E v \in TrailLengths : SetTrailLength(v)
    \/ Quiescent /\ \E pos \in PointerPos : handlePointerDown(pos, FALSE)
    \/ Quiescent /\ handlePointerUp
    \/ FpsProbeDone(TRUE)
    \/ CsvOnload

SpecOverlay == Init /\ [][NextOverlay]_vars

PlaybackTickTimes == {Ms(500), Ms(975), Ms(1000), Ms(1500)}

NextPlayback ==
    \/ StartScreenPick
    \/ \E file \in Videos : handleVideoUpload(file)
    \/ OnLoadedMetadata
    \/ \E ok \in BOOLEAN : FpsProbeDone(ok)
    \/ KeySpaceDown
    \/ KeySpaceUp
    \/ \E nowMs \in PlaybackTickTimes \cup {vidTime} : Tick(nowMs)
    \/ VideoEnded
    \/ \E field \in {"samplingRateNum", "samplingRateDen"}, v \in SamplingValues :
         SetSamplingRate(field, v)
    \/ JumpToFirst
    \/ JumpToFinal
    \/ JumpToPrevious
    \/ JumpToNext
    \/ \E pos \in PointerPos : handlePointerDown(pos, TRUE)
    \/ DeleteCurrent

SpecPlayback == Init /\ [][NextPlayback]_vars

\* auto-pause alone: Space, frame callbacks, the end of the media and the
\* sampling-rate spin boxes.  While the media plays the browser keeps
\* delivering frame callbacks, and it fires ended when the media reaches its
\* end: both are weakly fair.
NextAutoPause ==
    \/ StartScreenPick
    \/ \E file \in Videos : handleVideoUpload(file)
    \/ OnLoadedMetadata
    \/ \E ok \in BOOLEAN : FpsProbeDone(ok)
    \/ KeySpaceDown
    \/ KeySpaceUp
    \/ \E nowMs \in PlaybackTickTimes \cup {vidTime} : Tick(nowMs)
    \/ VideoEnded
    \/ \E field \in {"samplingRateNum", "samplingRateDen"}, v \in SamplingValues :
         SetSamplingRate(field, v)

SpecAutoPause ==
    /\ Init
    /\ [][NextAutoPause]_vars
    /\ WF_vars(\E nowMs \in PlaybackTickTimes \cup {vidTime} : Tick(nowMs))
    /\ WF_vars(VideoEnded)

\* ------------------------------------------------------------------------
\* Properties
\* ------------------------------------------------------------------------
\* the step is a Ctrl+click at pos (handlePointerDown with isCtrl)
CtrlClick(pos) == ev'.type = "pointerDown" /\ ev'.isCtrl /\ ev'.pos = pos

SameFrameAndObject(p, q) ==
    FrameOf(p.timestamp) = FrameOf(q.timestamp) /\ p.objectId = q.objectId

\* C1: in every reachable state the point store holds at most one point per
\* (frame index of the timestamp at the current fps, objectId) pair
C1_OnePointPerFrameAndObject ==
    \A i, j \in 1..Len(points) : SameFrameAndObject(points[i], points[j]) => i = j

\* the frame time of the frame the workspace shows
FrameTimeNow == getFrameTime(getFrameIndex(syncTime, videoFps), videoFps)
HasKey(q, t, objId) == q.timestamp = t /\ q.objectId = objId

C3_RejectedLogIsNoOp ==
    [][\A pos \in PointerPos :
         (CtrlClick(pos) /\ (isPlaying \/ ~IsTracking(syncTime) \/ ~InsideVideo(pos)))
         => UNCHANGED << points, isDirty, activeObjectId, stateRef, draggedPoint >>
      ]_vars

\* C3, its case: an in-bounds Ctrl+click on a tracking frame was rejected
\* because the video plays, with points in the store
C3_Witness ==
    /\ ev.type = "pointerDown" /\ ev.isCtrl
    /\ ~isSpaceHeld /\ isPlaying
    /\ videoDimensions.w # 0 /\ IsTracking(syncTime) /\ InsideVideo(ev.pos)
    /\ points # <<>>

\* C4: the delete key pressed while the video plays, or at a current time off
\* the tracking frames, leaves the points unchanged
C4_RejectedDeleteKeepsPoints ==
    [][(ev'.type = "deleteCurrent" /\ (isPlaying \/ ~IsTracking(appTime)))
         => points' = points]_vars

\* C4, its case: the delete key was pressed while playing, with a point of the
\* active object stored in the current frame
C4_Witness ==
    /\ ev.type = "deleteCurrent"
    /\ isPlaying
    /\ \E i \in 1..Len(points) :
          /\ points[i].objectId = activeObjectId
          /\ FrameOf(points[i].timestamp) = FrameOf(appTime)

\* C5: in every reachable state of the loaded workspace, deletion is permitted
\* exactly when logging with an in-bounds click is permitted
C5_DeleteGuardEqualsLogGuard ==
    videoDimensions.w # 0 => (DeletePermitted <=> LogPermitted)

\* C6: a permitted delete removes every point of the active object whose
\* frame index is the current one, whatever its exact timestamp, and leaves
\* every other point as it is
C6_DeleteRemovesWholeFrame ==
    [][(ev'.type = "deleteCurrent" /\ ~isPlaying /\ IsTracking(appTime))
         => points' = SelectSeq(points, LAMBDA q :
                          ~(FrameOf(q.timestamp) = FrameOf(appTime)
                            /\ q.objectId = activeObjectId))]_vars

\* C6, its case: a permitted delete removed two points of one frame, so one
\* of them had a timestamp off the frame grid
C6_Witness ==
    /\ ev.type = "deleteCurrent"
    /\ ~isPlaying /\ IsTracking(appTime)
    /\ ev.count = Len(points) + 2

\* the step is a logging, a drag commit or a deletion that changed the points
PointMutation ==
    ev'.type \in {"pointerDown", "pointerUp", "deleteCurrent"} /\ points' # points

\* C7: isDirty is true after every logging, drag commit or deletion that
\* changes the points; once true it is cleared only by an export that
\* succeeded, by a CSV import or by a project reset; a cancelled or failed
\* export leaves it as it was
C7_DirtyUntilSavedOrReplaced ==
    [][/\ PointMutation => isDirty'
       /\ (isDirty /\ ~isDirty')
            => \/ ev'.type = "exportFinish" /\ ev'.outcome \in {"saved", "fallback"}
               \/ ev'.type \in {"csvOnload", "videoUpload"}
       /\ (ev'.type = "exportFinish" /\ ev'.outcome \in {"aborted", "failed"})
            => isDirty' = isDirty
      ]_vars

\* C7, its case: an export of unsaved points was cancelled and they stay dirty
C7_Witness ==
    /\ ev.type = "exportFinish" /\ ev.outcome = "aborted"
    /\ isDirty
    /\ points # <<>>

\* C8: a CSV import replaces the points by the parsed rows, sets numObjects
\* to the larger of its value before and the largest imported objectId, makes
\* object 1 active and clears isDirty
C8_ImportKeepsNumObjects ==
    [][(ev'.type = "csvOnload" /\ csvReader # <<>>)
         => /\ points' = parseCSV(csvReader[1])
            /\ numObjects' = MaxObjectId(points', numObjects)
            /\ activeObjectId' = 1
            /\ ~isDirty']_vars

\* C9: in every reachable state 1 <= activeObjectId <= numObjects
C9_ActiveObjectInRange ==
    1 <= activeObjectId /\ activeObjectId <= numObjects

\* C10: loading a video leaves no points, object 1 active, one object and a
\* clean project, whatever the project held before
C10_VideoLoadResetsProject ==
    [][ev'.type = "videoUpload"
         => /\ points' = <<>>
            /\ activeObjectId' = 1
            /\ numObjects' = 1
            /\ ~isDirty']_vars

\* C10, its case: a video was loaded over a project that held points
C10_Witness ==
    /\ ev.type = "videoUpload"
    /\ ev.count > 0
    /\ points = <<>>

\* the step is an auto-pause: a frame callback that ends playback
AutoPause == isPlaying /\ ~isPlaying' /\ ev'.type = "tick"
\* t is the frame time of a tracking frame under the current fps and settings
OnTrackingGrid(t) ==
    /\ getFrameTime(getFrameIndex(t, videoFps), videoFps) = t
    /\ IsTracking(t)

\* C11: whenever auto-pause fires, playback is paused, the pending pause
\* target is cleared, and the clock is set exactly to the frame time of a
\* frame that is a tracking frame under the fps and sampling settings in
\* force at that moment
C11_AutoPauseLandsOnTrackingFrame ==
    [][AutoPause => /\ nextPauseTime' = NoTime
                    /\ OnTrackingGrid(syncTime')]_vars

\* a loaded video plays with Space released and has not reached its end
PlayingReleased == WorkspaceMounted /\ isPlaying /\ ~isSpaceHeld /\ vidTime < Duration
\* a pause target is pending and lies within the media
BoundaryAhead == WorkspaceMounted /\ nextPauseTime # NoTime /\ nextPauseTime <= Duration
\* the last step was a frame callback that auto-paused
AutoPaused == ev.type = "tick" /\ ev.autoPaused /\ ~isPlaying

PlayingTick == ev'.type = "tick" /\ isPlaying

\* C13: a frame callback while Space is held never auto-pauses and leaves no
\* pause target pending; a frame callback with Space released that does not
\* pause leaves a target strictly ahead of the frame it reported
C13_HoldSuspendsAndClearsTarget ==
    [][/\ (PlayingTick /\ isSpaceHeld)
            => (~ev'.autoPaused /\ nextPauseTime' = NoTime)
       /\ (PlayingTick /\ ~isSpaceHeld /\ ~ev'.autoPaused)
            => nextPauseTime' > getFrameTime(getFrameIndex(appTime', videoFps), videoFps)
      ]_vars

\* the step is a navigation call on a paused video that requests a seek to t
SeekTo(t) ==
    /\ ~isPlaying
    /\ \/ ev'.type = "jumpToFinal" /\ Relevant # <<>> /\ t = LatestOf(Relevant).timestamp
       \/ ev'.type = "jumpToFirst" /\ t = 0

\* C14: right after a seek to t, before any further frame callback, the media
\* clock is at t, no pause target is pending, and the current time seen by
\* logging (the workspace's) and by deletion and navigation (App's) is t
C14_SeekReflectedImmediately ==
    [][\A t \in {0} \cup {points[i].timestamp : i \in 1..Len(points)} :
         SeekTo(t) => /\ vidTime' = t
                      /\ nextPauseTime' = NoTime
                      /\ syncTime' = t
                      /\ appTime' = t]_vars

\* the active object's visible points in a frame strictly after (forward) or
\* strictly before the frame of App's current time
PointsBeyond(forward) ==
    FilterSeq(Relevant,
              [i \in 1..Len(Relevant) |->
                  IF forward THEN FrameOf(Relevant[i].timestamp) > FrameOf(appTime)
                  ELSE FrameOf(Relevant[i].timestamp) < FrameOf(appTime)])
\* the step seeks the workspace and the media to time t
SeeksTo(t) == syncTime' = t /\ vidTime' = Min(t, Duration)

\* C19: on a paused video, jumpToNext (jumpToPrevious) with a visible point of
\* the active object in a frame strictly after (before) the current frame
\* seeks to the timestamp of the nearest such point
C19_JumpLandsOnNearestPoint ==
    [][/\ (ev'.type = "jumpToNext" /\ ~isPlaying /\ PointsBeyond(TRUE) # <<>>)
            => SeeksTo(EarliestOf(PointsBeyond(TRUE)).timestamp)
       /\ (ev'.type = "jumpToPrevious" /\ ~isPlaying /\ PointsBeyond(FALSE) # <<>>)
            => SeeksTo(LatestOf(PointsBeyond(FALSE)).timestamp)
      ]_vars

\* the sampling interval in frames, at least 1
EffectiveIntervalFrames ==
    Max(1, IntervalFrames(videoFps, settings.samplingRateNum, settings.samplingRateDen))

\* C20: on a paused video, jumpToNext (jumpToPrevious) without a visible point
\* of the active object strictly after (before) the current frame seeks to the
\* frame one effective sampling interval after the current frame (before it,
\* not below frame 0)
C20_JumpStepsOneInterval ==
    [][/\ (ev'.type = "jumpToNext" /\ ~isPlaying /\ PointsBeyond(TRUE) = <<>>)
            => SeeksTo(getFrameTime(FrameOf(appTime) + EffectiveIntervalFrames, videoFps))
       /\ (ev'.type = "jumpToPrevious" /\ ~isPlaying /\ PointsBeyond(FALSE) = <<>>)
            => SeeksTo(getFrameTime(Max(0, FrameOf(appTime) - EffectiveIntervalFrames),
                                    videoFps))
      ]_vars

\* the interaction state changes its kind in this step
StateMoves(from, to) == stateRef.type = from /\ stateRef'.type = to

\* C15: the interaction state only moves IDLE -> PRE_DRAG (on a pointer-down
\* without modifier), PRE_DRAG -> DRAGGING, PRE_DRAG -> PANNING and from any
\* state to IDLE: PRE_DRAG is never entered from DRAGGING or PANNING, and
\* DRAGGING and PANNING never switch into each other
C15_InteractionStateTransitions ==
    [][stateRef'.type # stateRef.type =>
         \/ stateRef'.type = "IDLE"
         \/ /\ StateMoves("IDLE", "PRE_DRAG")
            /\ ev'.type = "pointerDown"
            /\ ~ev'.isCtrl
         \/ StateMoves("PRE_DRAG", "DRAGGING")
         \/ StateMoves("PRE_DRAG", "PANNING")]_vars

\* the point is inside the video, edges included
WithinVideo(p) ==
    /\ 0 <= p.x /\ p.x <= videoDimensions.w
    /\ 0 <= p.y /\ p.y <= videoDimensions.h

\* the points of pts other than the one of the frame and object of p
OtherPoints(pts, p) ==
    {pts[i] : i \in {j \in 1..Len(pts) :
                       \/ pts[j].objectId # p.objectId
                       \/ FrameOf(pts[j].timestamp) # FrameOf(p.timestamp)}}

\* the store holds p as the only point of its frame and object, next to
\* the points of other frames and objects it held before
CommitsOnly(p) ==
    /\ \E i \in 1..Len(points') : points'[i] = p
    /\ OtherPoints(points', p) = OtherPoints(points, p)
    /\ Len(points') = Cardinality(OtherPoints(points, p)) + 1

\* the dragged point is the picked-up point at other coordinates inside the video
DraggedOf(dragged, original) ==
    /\ dragged # <<>>
    /\ dragged[1].timestamp = original.timestamp
    /\ dragged[1].objectId = original.objectId
    /\ WithinVideo(dragged[1])

\* C16: in DRAGGING a pointer move changes only the transient dragged point,
\* which is the picked-up point at coordinates inside the video, and leaves the
\* point store alone; a pointer-up commits exactly that point: the store then
\* holds it in place of the point of its frame and object, all else as before
C16_DragCommitsOnRelease ==
    [][stateRef.type = "DRAGGING" =>
         /\ DraggedOf(draggedPoint, stateRef.originalPoint)
         /\ ev'.type = "pointerMove" =>
              /\ UNCHANGED << projectVars, videoFps, settings, isSpaceHeld, clockVars,
                              flowVars, video, fpsProbe, viewVars >>
              /\ \/ stateRef' = stateRef /\ DraggedOf(draggedPoint', stateRef.originalPoint)
                 \/ stateRef' = IDLE /\ draggedPoint' = <<>>
         /\ ev'.type = "pointerUp" =>
              /\ CommitsOnly(draggedPoint[1])
              /\ isDirty'
              /\ draggedPoint' = <<>>]_vars

\* a drag beyond the right edge was released: the committed point lies on the edge
C16_Witness ==
    /\ ev.type = "pointerUp"
    /\ isDirty
    /\ \E i \in 1..Len(points) : points[i].x = videoDimensions.w /\ points[i].y = 11

\* the step is a pointer-cancel, a lost pointer capture, or a pointer move
\* that reports the primary button released
HardReset ==
    \/ ev'.type = "pointerCancel"
    \/ ev'.type = "lostPointerCapture"
    \/ ev'.type = "pointerMove" /\ ~ev'.primaryDown

\* C17: from any non-IDLE state a pointer-cancel, a lost pointer capture and a
\* pointer move with the primary button released reset the state to IDLE and
\* the dragged point to null, and leave the point store, the dirty flag and
\* the active object unchanged
C17_CancelDiscardsGesture ==
    [][(stateRef.type # "IDLE" /\ HardReset) =>
         /\ stateRef' = IDLE
         /\ draggedPoint' = <<>>
         /\ UNCHANGED << points, isDirty, activeObjectId >>]_vars

\* a drag in progress was cancelled: nothing of it is left, the imported
\* points are in place and the project is clean
C17_Witness ==
    /\ ev.type = "pointerCancel"
    /\ ev.from = "DRAGGING"
    /\ stateRef = IDLE
    /\ draggedPoint = <<>>
    /\ ~isDirty
    /\ Len(points) = 2

\* the events of the pointer and the wheel on the workspace container
PointerInput ==
    {"pointerDown", "pointerMove", "pointerUp", "pointerCancel", "lostPointerCapture",
     "wheel"}

\* the gesture in progress crossed the drag threshold: it is dragging or
\* panning, or its transient dragged point is set
CrossedThreshold == stateRef.type \in {"DRAGGING", "PANNING"} \/ draggedPoint # <<>>

\* a pointer-up while in PRE_DRAG with a marker captured at pointer-down
SelectionClick ==
    ev'.type = "pointerUp" /\ stateRef.type = "PRE_DRAG" /\ stateRef.candidateObj # <<>>

\* C18: pointer input changes the active object only on a pointer-up received
\* in PRE_DRAG with a marker captured at pointer-down, and then to that
\* marker's objectId; the pointer-up of a gesture that crossed the drag
\* threshold, and a click on the empty background, leave it unchanged
C18_SelectionOnlyByClick ==
    [][ev'.type \in PointerInput =>
         /\ activeObjectId' # activeObjectId => SelectionClick
         /\ SelectionClick => activeObjectId' = stateRef.candidateObj[1].objectId
         /\ (ev'.type = "pointerUp" /\ CrossedThreshold) =>
              activeObjectId' = activeObjectId]_vars

\* where jumpToFirst is to seek: the active object's earliest visible point
\* when its frame is strictly before the current one, else time 0
FirstTarget ==
    IF Relevant # <<>> /\ FrameOf(EarliestOf(Relevant).timestamp) < FrameOf(appTime)
    THEN EarliestOf(Relevant).timestamp
    ELSE 0

\* C21: while paused, jumpToFirst seeks to the active object's earliest
\* visible point when that point's frame is strictly before the current
\* frame and to time 0 otherwise; jumpToFinal seeks to the active object's
\* latest visible point, and issues no seek when the object has no points
C21_JumpToFirstAndFinal ==
    [][/\ (ev'.type = "jumpToFirst" /\ ~isPlaying) => SeeksTo(FirstTarget)
       /\ (ev'.type = "jumpToFinal" /\ ~isPlaying) =>
            IF Relevant # <<>>
            THEN SeeksTo(LatestOf(Relevant).timestamp)
            ELSE UNCHANGED << syncTime, vidTime >>]_vars

\* the video's metadata has loaded and the initial fit has run
ViewReady == WorkspaceMounted /\ videoDimensions.w # 0 /\ hasInitialFit

\* C22: in every state after the video's metadata has loaded the scale lies
\* in [min(1, fitScale), 10]
C22_ScaleWithinLimits ==
    ViewReady =>
        /\ Min(MIN_SCALE * ScaleUnit, FitScale(container, videoDimensions)) <= transform.scale
        /\ transform.scale <= MAX_SCALE * ScaleUnit

\* the step is a container resize of a view that had its initial fit
ResizeOfReadyView == ev'.type = "resize" /\ ViewReady

FitsCentred(t, c) ==
    /\ videoDimensions.w * t.scale <= c.w * ScaleUnit
    /\ videoDimensions.h * t.scale <= c.h * ScaleUnit
    /\ \/ videoDimensions.w * (t.scale + 1) > c.w * ScaleUnit
       \/ videoDimensions.h * (t.scale + 1) > c.h * ScaleUnit
    /\ 2 * t.x * ScaleUnit + videoDimensions.w * t.scale = c.w * ScaleUnit
    /\ 2 * t.y * ScaleUnit + videoDimensions.h * t.scale = c.h * ScaleUnit

ProposedTransforms ==
    [x : {0 - 500, 0 - 8, 0, 3, 500}, y : {0 - 500, 0, 7}, scale : {1, 5, 10, 20, 22, 99, 250}]

\* the offset along one axis of container side c is as constrain leaves it
OffsetConstrained(c, scaled, offset) ==
    IF scaled <= c * ScaleUnit
    THEN 2 * offset * ScaleUnit = c * ScaleUnit - scaled
    ELSE c * ScaleUnit - scaled <= offset * ScaleUnit /\ offset <= 0

\* the scale of t is within the limits and its offsets are constrained
Constrained(t) ==
    /\ Min(FitScale(container, videoDimensions), MIN_SCALE * ScaleUnit) <= t.scale
    /\ t.scale <= MAX_SCALE * ScaleUnit
    /\ OffsetConstrained(container.w, videoDimensions.w * t.scale, t.x)
    /\ OffsetConstrained(container.h, videoDimensions.h * t.scale, t.y)

\* the step is a zoom or a pan move
ZoomOrPan ==
    \/ ev'.type = "wheel"
    \/ ev'.type = "pointerMove" /\ stateRef'.type = "PANNING"

\* C24: for every proposed transform constrain returns a scale in
\* [min(fitScale, 1), 10] and per axis an offset of (container - scaled) / 2
\* when the scaled video is no larger than the container, and an offset within
\* [container - scaled, 0] otherwise; every transform produced by a pan move
\* or a zoom is of this kind
C24_ConstrainKeepsVideoInView ==
    [][ViewReady =>
         /\ \A proposed \in ProposedTransforms :
               Constrained(getConstrainedTransform(proposed))
         /\ ZoomOrPan => Constrained(transform')]_vars

\* a pan of the zoomed view was stopped at the right edge of the video
C24_Witness ==
    /\ ev.type = "pointerMove"
    /\ stateRef.type = "PANNING"
    /\ transform = [x |-> 0 - 8, y |-> 0, scale |-> 22]
    /\ container = [w |-> 80, h |-> 40]

\* how often p occurs in seq
Occurrences(seq, p) == Cardinality({i \in 1..Len(seq) : seq[i] = p})

\* the two sequences hold the same tuples the same number of times
SameMultiset(a, b) ==
    /\ Len(a) = Len(b)
    /\ \A i \in 1..Len(a) : Occurrences(a, a[i]) = Occurrences(b, a[i])

NumericRow(line) == Len(line) >= 4 /\ \A i \in 1..4 : line[i].kind = "num"

\* the rows of the text behind its header line, if its first line holds the
\* literal timestamp_ms
RowsOf(text) ==
    IF \E i \in 1..Len(text[1]) : text[1][i].kind = "timestamp_ms"
    THEN Tail(text)
    ELSE text

\* the points of the numeric rows of the text, in their order
NumericRowPoints(text) ==
    LET kept == FilterSeq(RowsOf(text),
                          [i \in 1..Len(RowsOf(text)) |-> NumericRow(RowsOf(text)[i])])
    IN  [i \in 1..Len(kept) |->
           [timestamp |-> kept[i][1].v, objectId |-> kept[i][2].v,
            x |-> kept[i][3].v, y |-> kept[i][4].v]]

\* C26: parseCSV skips blank lines and every row in which one of the four
\* fields is not a number (non-numeric, empty or missing) and returns exactly
\* the remaining rows; the first line is skipped as a header only when it
\* holds the literal timestamp_ms
C26_ImportSkipsMalformedRows ==
    [][ev'.type = "csvOnload" => points' = NumericRowPoints(csvReader[1])]_vars

\* there is unsaved work: the point store is non-empty and dirty
UnsavedWork == Len(points) > 0 /\ isDirty

\* the step finishes an export that was started from the prompt
PromptExportEnds(outcomes) ==
    /\ ev'.type = "exportFinish"
    /\ ev'.outcome \in outcomes
    /\ exportJob[1].origin = "dialog"

\* C27: with unsaved work, Load Video and Import CSV open the unsaved-changes
\* prompt instead of the file picker; while the prompt is open the picker
\* opens only on Discard or at the end of an export that succeeded; a
\* cancelled or failed export from the prompt leaves the prompt open, the
\* picker closed and the points and the dirty flag untouched
C27_UnsavedWorkGuardsPickers ==
    [][/\ (ev'.type = "pickerClick" /\ UnsavedWork) =>
            /\ isUnsavedDialogOpen'
            /\ pendingAction' = ev'.action
            /\ picker' = "none"
       /\ (isUnsavedDialogOpen /\ picker' # "none") =>
            \/ ev'.type = "discard"
            \/ PromptExportEnds({"saved", "fallback"})
       /\ PromptExportEnds({"aborted", "failed"}) =>
            UNCHANGED << isUnsavedDialogOpen, picker, pendingAction, points, isDirty >>]_vars

\* an export from the prompt was cancelled: the prompt is still open over the
\* unsaved points, no picker is open
C27_Witness ==
    /\ ev.type = "exportFinish"
    /\ ev.outcome = "aborted"
    /\ isUnsavedDialogOpen
    /\ pendingAction = "CSV"
    /\ picker = "none"
    /\ UnsavedWork

\* the kinds of markers of the overlay
IsCurrentMarker(el) == el.type = "circle" /\ el.sortKey = 10 * KeyScale
IsLastKnownMarker(el) == el.type = "square"
IsTrailMarker(el) == el.type = "circle" /\ el.sortKey < 10 * KeyScale

\* the indices of the markers of object id in the overlay list
MarkersOf(id) == {i \in 1..Len(uiElements) : uiElements[i].objectId = id}

\* marker i carries the label its object is entitled to: the current-frame
\* marker if the object has one, else its most recent trail marker, else its
\* last-known marker
LabelInPlace(i, id) ==
    IF \E j \in MarkersOf(id) : IsCurrentMarker(uiElements[j])
    THEN IsCurrentMarker(uiElements[i])
    ELSE IF \E j \in MarkersOf(id) : IsTrailMarker(uiElements[j])
         THEN /\ IsTrailMarker(uiElements[i])
              /\ \A j \in MarkersOf(id) : uiElements[j].sortKey <= uiElements[i].sortKey
         ELSE IsLastKnownMarker(uiElements[i])

\* C28: in the overlay list every object with a marker has exactly one marker
\* that carries its label: its current-frame marker if it has one, otherwise
\* its most recent trail marker, otherwise its last-known marker
C28_OneLabelPerObject ==
    \A id \in {uiElements[i].objectId : i \in 1..Len(uiElements)} :
        /\ Cardinality({i \in MarkersOf(id) : uiElements[i].label}) = 1
        /\ \A i \in MarkersOf(id) : uiElements[i].label => LabelInPlace(i, id)

\* the visible points of object id strictly before the current frame
PriorPoints(id) ==
    {i \in 1..Len(visiblePoints) :
        /\ visiblePoints[i].objectId = id
        /\ getFrameIndex(visiblePoints[i].timestamp, videoFps) < currentFrameIndex}

SquaresOf(id) == {i \in MarkersOf(id) : IsLastKnownMarker(uiElements[i])}

\* marker i sits at the latest point of object id before the current frame
AtLatestPrior(i, id) ==
    \E p \in PriorPoints(id) :
        /\ \A q \in PriorPoints(id) :
               visiblePoints[q].timestamp <= visiblePoints[p].timestamp
        /\ uiElements[i].x = visiblePoints[p].x
        /\ uiElements[i].y = visiblePoints[p].y

\* C29: the overlay has a square last-known marker for an object exactly when
\* the object has no current-frame marker and no trail marker but a visible
\* point strictly before the current frame; the square sits at the latest such
\* point and there is at most one per object
C29_LastKnownMarker ==
    videoDimensions.w # 0 =>
        \A id \in {visiblePoints[i].objectId : i \in 1..Len(visiblePoints)}
                  \cup {activeObjectId}
                  \cup {uiElements[i].objectId : i \in 1..Len(uiElements)} :
            /\ SquaresOf(id) # {}
                   <=> /\ \A i \in MarkersOf(id) : IsLastKnownMarker(uiElements[i])
                       /\ PriorPoints(id) # {}
            /\ Cardinality(SquaresOf(id)) <= 1
            /\ \A i \in SquaresOf(id) : AtLatestPrior(i, id)

\* one object is shown by its last-known square while another one still has a
\* trail marker and a point before the current frame
C29_Witness ==
    /\ \E i \in 1..Len(uiElements) : IsLastKnownMarker(uiElements[i])
    /\ \E i \in 1..Len(uiElements) :
           /\ IsTrailMarker(uiElements[i])
           /\ PriorPoints(uiElements[i].objectId) # {}

MarkersUnder(pos) ==
    {i \in 1..Len(uiElements) : HitsElement(uiElements[i], pos[1], pos[2])}

\* marker a is to be hit in preference to marker b, or as well as b
HitBefore(a, b) ==
    \/ IsCurrentMarker(a)
    \/ IsLastKnownMarker(a) /\ ~IsCurrentMarker(b)
    \/ IsTrailMarker(a) /\ IsTrailMarker(b) /\ a.sortKey >= b.sortKey

\* C30: of the markers under the pointer the hit test returns a current-frame
\* marker before a last-known marker, a last-known marker before any trail
\* marker, and a more recent trail marker before an older one
C30_HitTestPrefersTopMarker ==
    \A pos \in PointerPos :
        MarkersUnder(pos) # {} =>
            /\ findElementAtScreenPos(pos) \in MarkersUnder(pos)
            /\ \A j \in MarkersUnder(pos) :
                   HitBefore(uiElements[findElementAtScreenPos(pos)], uiElements[j])

\* a press on a place where the markers of two kinds lie on top of each other
C30_Witness ==
    /\ ev.type = "pointerDown"
    /\ stateRef.type = "PRE_DRAG"
    /\ stateRef.candidateObj # <<>>
    /\ \E i, j \in MarkersUnder(ev.pos) :
           /\ IsLastKnownMarker(uiElements[i])
           /\ IsTrailMarker(uiElements[j])

\* the move ends more than 5 pixels from where the pointer went down
BeyondThreshold ==
    (ev'.pos[1] - stateRef.startX) * (ev'.pos[1] - stateRef.startX)
    + (ev'.pos[2] - stateRef.startY) * (ev'.pos[2] - stateRef.startY) > 5 * 5

\* a point of the current frame was captured at pointer-down
CapturedPoint == stateRef.candidateObj # <<>> /\ stateRef.candidateObj[1].point # <<>>

\* what a move in PRE_DRAG does to the interaction state
ThresholdResolves ==
    /\ stateRef'.type # "PRE_DRAG" <=> BeyondThreshold
    /\ BeyondThreshold =>
           stateRef'.type = (IF CapturedPoint THEN "DRAGGING"
                             ELSE IF canPan THEN "PANNING" ELSE "IDLE")
    /\ stateRef'.type = "PANNING" => canPan

\* C31 as stated: every pointer move in PRE_DRAG leaves the state only beyond
\* 5 pixels from the pointer-down position, then for DRAGGING if a
\* current-frame point was captured, else for PANNING if canPan, else for IDLE
C31_ThresholdResolvesEveryMove ==
    [][(ev'.type = "pointerMove" /\ stateRef.type = "PRE_DRAG") => ThresholdResolves]_vars

\* C31: a pointer move in PRE_DRAG that reports the primary button held leaves
\* the state only beyond 5 pixels from the pointer-down position, then for
\* DRAGGING if a current-frame point was captured, else for PANNING if canPan,
\* else for IDLE; PANNING is never entered when canPan is false
C31_ThresholdResolvesHeldMove ==
    [][(ev'.type = "pointerMove" /\ ev'.primaryDown /\ stateRef.type = "PRE_DRAG")
          => ThresholdResolves]_vars

\* a press on the background of a view that cannot be panned was moved beyond
\* the threshold with the button held, and the gesture was dropped
C31_Witness ==
    /\ ev.type = "pointerMove"
    /\ ev.primaryDown
    /\ ev.from = "PRE_DRAG"
    /\ stateRef.type = "IDLE"
    /\ ~canPan

\* the least multiple of interval strictly greater than frame
LeastMultipleAbove(frame, interval) ==
    CHOOSE m \in (frame + 1)..(frame + interval) :
        /\ m % interval = 0
        /\ \A n \in (frame + 1)..(frame + interval) : n % interval = 0 => m <= n

\* the frame callback of this step computes a pause target: the media plays,
\* Space is released and no target is pending
ComputesTarget ==
    /\ ev'.type = "tick"
    /\ isPlaying
    /\ settings.samplingRateNum > 0
    /\ ~isSpaceHeld
    /\ nextPauseTime = NoTime

\* the time of the pause target of this step: where it paused, or what it
\* keeps as pending
ComputedTarget == IF ev'.autoPaused THEN syncTime' ELSE nextPauseTime'

\* C32: for every current frame f >= 0 and interval I >= 1 the pause target
\* the clock computes is the least multiple of I strictly greater than f
C32_TargetIsNextGridFrame ==
    [][ComputesTarget =>
          ComputedTarget =
              getFrameTime(LeastMultipleAbove(getFrameIndex(appTime', videoFps),
                                              EffectiveIntervalFrames),
                           videoFps)]_vars

\* a target is pending that was computed from a frame off the sampling grid,
\* with an interval of several frames
C32_Witness ==
    /\ ev.type = "tick"
    /\ isPlaying
    /\ nextPauseTime # NoTime
    /\ EffectiveIntervalFrames > 1
    /\ getFrameIndex(appTime, videoFps) % EffectiveIntervalFrames # 0
    /\ getFrameIndex(nextPauseTime, videoFps) - getFrameIndex(appTime, videoFps)
           < EffectiveIntervalFrames

\* the points of the store after this step that were not in it before
InsertedPoints ==
    {i \in 1..Len(points') : \A j \in 1..Len(points) : points[j] # points'[i]}

\* C33: a pointer-down with the logging modifier held inserts at most one
\* point into the store and leaves the interaction state as it was: it never
\* enters PRE_DRAG, DRAGGING or PANNING
C33_LoggingClickIsDiscrete ==
    [][(ev'.type = "pointerDown" /\ ev'.isCtrl) =>
          /\ Cardinality(InsertedPoints) <= 1
          /\ Len(points') <= Len(points) + 1
          /\ stateRef' = stateRef
          /\ draggedPoint' = draggedPoint]_vars

\* a press with the logging modifier on a paused, idle view put a point into
\* the store
C33_Witness ==
    /\ ev.type = "pointerDown"
    /\ ev.isCtrl
    /\ stateRef.type = "IDLE"
    /\ isDirty
    /\ \E i \in 1..Len(points) : /\ points[i].x = ToVideoX(ev.pos)
                                 /\ points[i].y = ToVideoY(ev.pos)
                                 /\ points[i].objectId = activeObjectId

\* C34: at the end of every pointer event handler the transient dragged point
\* is set exactly when the interaction state is DRAGGING
C34_DraggedPointIffDragging ==
    ev.type \in PointerInput => (draggedPoint # <<>> <=> stateRef.type = "DRAGGING")

\* two points are the record of one time and object (the id of a TrackPoint)
SameRecord(p, q) == p.timestamp = q.timestamp /\ p.objectId = q.objectId

\* the step is the pointer-up that commits a drag
DragCommit == ev'.type = "pointerUp" /\ stateRef.type = "DRAGGING" /\ draggedPoint # <<>>

\* C35: a drag commit only replaces the point that was picked up: the store
\* has as many points after it as before, the others untouched, also when the
\* X key deleted the point of that frame and object during the drag
C35_DragCommitReplacesOnly ==
    [][DragCommit =>
          /\ Len(points') = Len(points)
          /\ \A i \in 1..Len(points) :
                 ~SameRecord(points[i], stateRef.originalPoint)
                     => \E j \in 1..Len(points') : points'[j] = points[i]
          /\ \A j \in 1..Len(points') :
                 points'[j] # draggedPoint[1]
                     => \E i \in 1..Len(points) : points[i] = points'[j]]_vars

\* C36: the frame rate used for frame indexing changes only while the point
\* store is empty, also when the frame-rate probe of a newly loaded video
\* completes after the user has started logging
C36_FpsChangesOnlyWhenEmpty ==
    [][videoFps' # videoFps => points = <<>>]_vars

\* the step is a CSV import or a video load that replaces or clears a
\* non-empty dirty point set
ReplacesUnsaved ==
    /\ ev'.type \in {"csvOnload", "videoUpload"}
    /\ points # <<>>
    /\ isDirty
    /\ points' # points

\* C37: a CSV import or a video load replaces or clears a non-empty dirty
\* point set only after the user chose Discard for that point set or an export
\* of it succeeded, also when the file read completes after further points
\* were logged
C37_UnsavedPointsNeverDropped ==
    [][ReplacesUnsaved => released = <<points>>]_vars

\* C38: every Space key-up sets isSpaceHeld to false, also when it arrives
\* while the unsaved-changes dialog is open, so that auto-pause and
\* pointer-down handling are not left suspended after the key was released
C38_KeyUpReleasesSpace ==
    [][ev'.type = "keySpaceUp" => ~isSpaceHeld']_vars

\* the step is a jump of the navigation on a video paused on a tracking frame
JumpOnGrid ==
    /\ ev'.type \in {"jumpToPrevious", "jumpToNext", "jumpToFirst", "jumpToFinal"}
    /\ ~isPlaying
    /\ IsTracking(appTime)

\* C39: while paused on a tracking frame, every seek target produced by
\* jumpToPrevious, jumpToNext, jumpToFirst or jumpToFinal is a time >= 0 whose
\* frame is a tracking frame
C39_JumpsStayOnGrid ==
    [][JumpOnGrid =>
          \A i \in 1..Len(ev'.request) :
              /\ ev'.request[i] # <<>>
              /\ ev'.request[i][1] >= 0
              /\ IsTracking(ev'.request[i][1])]_vars

====
